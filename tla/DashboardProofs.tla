--------------------------- MODULE DashboardProofs ---------------------------
(***************************************************************************)
(* Proofs about Dashboard: how old an answer may be and whose filters it   *)
(* has, that the figure of a group is the figure of the filter for that    *)
(* group, and that the parts of an answer add up to its totals, whatever   *)
(* the tables hold.                                                        *)
(***************************************************************************)
EXTENDS Dashboard, FiniteSetTheorems, TLAPS

(* The inductive invariant *)

PackNames == {"farms", "crops", "esg"}

\* The load a promise stands for, or an entry or an answer was made of.
Loads == [filters : {NoFilters} \cup {request.filters : request \in workload},
          read : [PackNames -> 0..now], took : 0..MaxLoad]

\* What was read was current no longer ago than since ticks.
ReadWithin(value, packs, since) ==
  \A pack \in packs : value.read[pack] # Unread /\ age[value.read[pack]] <= since

\* A load has the filters of its key; whatever it has read was current after
\* it began.
LoadsFresh ==
  \A s \in Slots :
    /\ load[s] \in Loads
    /\ inflight[s] = "pending" => load[s].filters = s.key
    /\ \A pack \in PackNames :
         load[s].read[pack] # Unread => age[load[s].read[pack]] <= load[s].took
    /\ inflight[s] # "pending" => load[s] = NoLoad

\* An entry has the filters of its key, and has aged with what it was read from.
StoreFresh ==
  \A s \in Slots :
    /\ store[s] \in [known : BOOLEAN, left : 0..TTL, value : Loads]
    /\ store[s].known =>
         /\ store[s].value.filters = s.key
         /\ ReadWithin(store[s].value, Packs(s.endpoint),
                       store[s].value.took + (TTL - store[s].left))

AnswersInTime ==
  \A a \in answers :
    /\ a.request \in workload /\ a.ok \in BOOLEAN /\ a.value \in Loads
    /\ a.ok => /\ a.value.filters = a.request.filters
               /\ ReadWithin(a.value, Packs(a.request.endpoint), TTL + a.value.took)

\* The table states gone through; those that were not replaced have no age.
StoryOK ==
  /\ [workload |-> workload, story |-> story] \in Behaviours
  /\ now \in 1..Len(story)
  /\ age \in [1..Len(story) -> 0..Horizon]
  /\ \A i \in now..Len(story) : age[i] = 0
  /\ up \in BOOLEAN

SlotsOK ==
  /\ DOMAIN store = Slots /\ store = [s \in Slots |-> store[s]]
  /\ DOMAIN load = Slots /\ load = [s \in Slots |-> load[s]]
  /\ inflight \in [Slots -> {"none", "pending", "rejected"}]
  /\ waiting \in [Clients -> workload \cup {NoRequest}]

DashboardInv ==
  /\ StoryOK
  /\ SlotsOK
  /\ LoadsFresh
  /\ StoreFresh
  /\ AnswersInTime

-----------------------------------------------------------------------------
(* Table states, keys and loads *)

LEMMA StoryLength ==
  ASSUME StoryOK
  PROVE  Len(story) \in Nat \ {0} /\ \A i \in 1..Len(story) : IsTables(story[i])
BY BehavioursAssumption DEF StoryOK

\* The key of a request is its endpoint and its filters.
LEMMA KeyIsRequest ==
  ASSUME NEW r \in workload
  PROVE  KeyOf(r) \in Slots /\ KeyOf(r).key = r.filters /\ KeyOf(r).endpoint = r.endpoint
BY DEF KeyOf, Slots, CacheKey

LEMMA PacksNamed == \A endpoint : Packs(endpoint) \subseteq PackNames
BY DEF Packs, PackNames

LEMMA NoLoadType ==
  ASSUME StoryOK
  PROVE  NoLoad \in Loads /\ NoLoad.took = 0 /\ \A pack \in PackNames : NoLoad.read[pack] = Unread
<1>1. NothingRead \in [PackNames -> 0..now]
  BY StoryLength DEF NothingRead, PackNames, Unread, StoryOK
<1>2. 0 \in 0..MaxLoad
  BY DashboardAssumption
<1>3. QED  BY <1>1, <1>2 DEF NoLoad, Loads, NothingRead, PackNames

\* What was read is the number of a table state, which has an age.
LEMMA ReadHasAge ==
  ASSUME StoryOK, NEW value \in Loads, NEW pack \in PackNames, value.read[pack] # Unread
  PROVE  value.read[pack] \in 1..now /\ value.read[pack] \in 1..Len(story)
         /\ age[value.read[pack]] \in Nat
<1>1. value.read[pack] \in 0..now
  BY DEF Loads
<1>2. value.read[pack] \in 1..now /\ value.read[pack] \in 1..Len(story)
  BY <1>1, StoryLength DEF StoryOK, Unread
<1>3. QED  BY <1>2, DashboardAssumption DEF StoryOK

LEMMA ReadWithinLonger ==
  ASSUME StoryOK, NEW value \in Loads, NEW packs \in SUBSET PackNames,
         NEW since \in Int, NEW longer \in Int, since <= longer,
         ReadWithin(value, packs, since)
  PROVE  ReadWithin(value, packs, longer)
<1> SUFFICES ASSUME NEW pack \in packs
             PROVE  value.read[pack] # Unread /\ age[value.read[pack]] <= longer
  BY DEF ReadWithin
<1>1. value.read[pack] # Unread /\ age[value.read[pack]] <= since
  BY DEF ReadWithin
<1>2. age[value.read[pack]] \in Nat
  BY <1>1, ReadHasAge
<1>3. QED  BY <1>1, <1>2

\* Requests, table states and their ages are the same after a step that leaves
\* the world alone.
LEMMA WorldSame ==
  ASSUME UNCHANGED World, StoryOK
  PROVE  StoryOK' /\ Slots' = Slots /\ Loads' = Loads
BY DEF World, StoryOK, Slots, Loads

-----------------------------------------------------------------------------
(* The invariant is inductive *)

LEMMA DashboardInvInit == Init => DashboardInv
<1> SUFFICES ASSUME Init PROVE DashboardInv
  OBVIOUS
<1>1. PICK b \in Behaviours : workload = b.workload /\ story = b.story
  BY DEF Init
<1>2. [workload |-> workload, story |-> story] \in Behaviours /\ Len(story) \in Nat \ {0}
  BY <1>1, BehavioursAssumption
<1>3. StoryOK
  BY <1>2, DashboardAssumption DEF Init, StoryOK
<1>4. SlotsOK
  BY DEF Init, SlotsOK
<1>5. LoadsFresh
  <2>1. \A s \in Slots : load[s] = NoLoad /\ inflight[s] = "none"
    BY DEF Init
  <2>2. QED  BY <1>3, <2>1, NoLoadType DEF LoadsFresh
<1>6. StoreFresh
  <2>1. \A s \in Slots : store[s] = [known |-> FALSE, left |-> 0, value |-> NoLoad]
    BY DEF Init, NoEntry
  <2>2. 0 \in 0..TTL
    BY DashboardAssumption
  <2>3. NoLoad \in Loads
    BY <1>3, NoLoadType
  <2>4. \A s \in Slots : /\ store[s] \in [known : BOOLEAN, left : 0..TTL, value : Loads]
                         /\ ~store[s].known
    <3>1. [known |-> FALSE, left |-> 0, value |-> NoLoad]
            \in [known : BOOLEAN, left : 0..TTL, value : Loads]
      BY <2>2, <2>3
    <3>2. QED  BY <2>1, <3>1
  <2>5. QED  BY <2>4 DEF StoreFresh
<1>7. AnswersInTime
  BY DEF Init, AnswersInTime
<1>8. QED  BY <1>3, <1>4, <1>5, <1>6, <1>7 DEF DashboardInv

LEMMA AnswerAtOnceKeeps ==
  ASSUME DashboardInv, NEW c \in Clients, NEW r \in workload, AnswerAtOnce(c, r)
  PROVE  DashboardInv'
<1> DEFINE s == KeyOf(r)
<1>1. s \in Slots /\ s.key = r.filters /\ s.endpoint = r.endpoint
  BY KeyIsRequest
<1>2. /\ answers' = IF Cached(s) THEN Told({r}, TRUE, store[s].value)
                    ELSE Told({r}, FALSE, NoLoad)
      /\ UNCHANGED <<store, inflight, load, waiting>> /\ UNCHANGED World
  BY DEF AnswerAtOnce
<1>3. StoryOK' /\ Slots' = Slots /\ Loads' = Loads /\ UNCHANGED <<workload, age>>
  BY <1>2, WorldSame DEF DashboardInv, World
<1>4. SlotsOK' /\ LoadsFresh' /\ StoreFresh'
  BY <1>2, <1>3 DEF DashboardInv, SlotsOK, LoadsFresh, StoreFresh, ReadWithin, World
<1>5. AnswersInTime
  BY DEF DashboardInv
<1>6. CASE Cached(s)
  <2>1. store[s].known
    BY <1>6 DEF Cached
  <2>5. answers' = {[request |-> r, ok |-> TRUE, value |-> store[s].value]}
    BY <1>2, <1>6 DEF Told
  <2> HIDE DEF s
  <2>2. /\ store[s].left \in 0..TTL /\ store[s].value \in Loads
        /\ store[s].value.filters = r.filters
        /\ ReadWithin(store[s].value, Packs(r.endpoint),
                      store[s].value.took + (TTL - store[s].left))
    BY <1>1, <2>1 DEF DashboardInv, StoreFresh
  <2>3. store[s].value.took \in Nat /\ TTL \in Nat
    BY <2>2, DashboardAssumption DEF Loads
  <2>4. ReadWithin(store[s].value, Packs(r.endpoint), TTL + store[s].value.took)
    <3>1. Packs(r.endpoint) \in SUBSET PackNames
      BY PacksNamed
    <3>2. StoryOK
      BY DEF DashboardInv
    <3>3. /\ store[s].value.took + (TTL - store[s].left) \in Int
          /\ TTL + store[s].value.took \in Int
          /\ store[s].value.took + (TTL - store[s].left) <= TTL + store[s].value.took
      BY <2>2, <2>3
    <3>4. QED  BY <2>2, <3>1, <3>2, <3>3, ReadWithinLonger
  <2>6. AnswersInTime'
    <3>1. \A a \in answers' : a.request = r /\ a.ok = TRUE /\ a.value = store[s].value
      BY <2>5
    <3>2. QED  BY <1>3, <2>2, <2>4, <3>1 DEF AnswersInTime, ReadWithin
  <2>7. QED  BY <1>3, <1>4, <2>6 DEF DashboardInv
<1>7. CASE ~Cached(s)
  <2>1. answers' = {[request |-> r, ok |-> FALSE, value |-> NoLoad]}
    BY <1>2, <1>7 DEF Told
  <2>2. NoLoad \in Loads
    BY NoLoadType DEF DashboardInv
  <2>3. AnswersInTime'
    <3>1. \A a \in answers' : a.request = r /\ a.ok = FALSE /\ a.value = NoLoad
      BY <2>1
    <3>2. QED  BY <1>3, <2>2, <3>1 DEF AnswersInTime
  <2>4. QED  BY <1>3, <1>4, <2>3 DEF DashboardInv
<1>8. QED  BY <1>6, <1>7

LEMMA JoinKeeps ==
  ASSUME DashboardInv, NEW c \in Clients, NEW r \in workload, Join(c, r)
  PROVE  DashboardInv'
<1>1. /\ waiting' = [waiting EXCEPT ![c] = r] /\ answers' = {}
      /\ UNCHANGED <<store, inflight, load>> /\ UNCHANGED World
  BY DEF Join
<1>2. StoryOK' /\ Slots' = Slots /\ Loads' = Loads
  BY <1>1, WorldSame DEF DashboardInv
<1>3. LoadsFresh' /\ StoreFresh'
  BY <1>1, <1>2 DEF DashboardInv, LoadsFresh, StoreFresh, ReadWithin, World
<1>4. SlotsOK'
  BY <1>1, <1>2 DEF DashboardInv, SlotsOK, World
<1>5. AnswersInTime'
  BY <1>1 DEF AnswersInTime
<1>6. QED  BY <1>2, <1>3, <1>4, <1>5 DEF DashboardInv

LEMMA StartLoadKeeps ==
  ASSUME DashboardInv, NEW c \in Clients, NEW r \in workload, StartLoad(c, r)
  PROVE  DashboardInv'
<1> DEFINE s == KeyOf(r)
           begun == [NoLoad EXCEPT !.filters = r.filters]
<1>1. s \in Slots /\ s.key = r.filters
  BY KeyIsRequest
<1>2. /\ inflight' = [inflight EXCEPT ![s] = "pending"]
      /\ load' = [load EXCEPT ![s] = begun]
      /\ waiting' = [waiting EXCEPT ![c] = r] /\ answers' = {}
      /\ UNCHANGED store /\ UNCHANGED World
  BY DEF StartLoad
<1>3. StoryOK' /\ Slots' = Slots /\ Loads' = Loads
  BY <1>2, WorldSame DEF DashboardInv
<1>4. /\ begun \in Loads /\ begun.filters = r.filters
      /\ \A pack \in PackNames : begun.read[pack] = Unread
  BY NoLoadType DEF DashboardInv, NoLoad, Loads
<1>5. SlotsOK'
  BY <1>1, <1>2, <1>3 DEF DashboardInv, SlotsOK, World
<1>6. StoreFresh'
  BY <1>2, <1>3 DEF DashboardInv, StoreFresh, ReadWithin, World
<1>7. LoadsFresh'
  <2>1. \A x \in Slots : load'[x] = (IF x = s THEN begun ELSE load[x])
                         /\ inflight'[x] = (IF x = s THEN "pending" ELSE inflight[x])
    BY <1>2 DEF DashboardInv, SlotsOK
  <2>2. UNCHANGED age
    BY <1>2 DEF World
  <2> HIDE DEF begun, s
  <2>3. QED  BY <1>1, <1>3, <1>4, <2>1, <2>2 DEF DashboardInv, LoadsFresh
<1>8. AnswersInTime'
  BY <1>2 DEF AnswersInTime
<1>9. QED  BY <1>3, <1>5, <1>6, <1>7, <1>8 DEF DashboardInv

LEMMA ReadPackKeeps ==
  ASSUME DashboardInv, NEW s \in Slots, NEW pack \in Packs(s.endpoint), ReadPack(s, pack)
  PROVE  DashboardInv'
<1> DEFINE next == [load[s] EXCEPT !.read = [load[s].read EXCEPT ![pack] = now]]
<1>1. /\ inflight[s] = "pending"
      /\ load' = [load EXCEPT ![s] = next]
      /\ answers' = {}
      /\ UNCHANGED <<store, inflight, waiting>> /\ UNCHANGED World
  BY DEF ReadPack
<1>2. StoryOK' /\ Slots' = Slots /\ Loads' = Loads /\ UNCHANGED age
  BY <1>1, WorldSame DEF DashboardInv, World
<1>3. pack \in PackNames
  BY PacksNamed
<1>4. load[s] \in Loads
  BY DEF DashboardInv, LoadsFresh
<1>5. now \in 0..now /\ age[now] = 0
  BY StoryLength DEF DashboardInv, StoryOK
<1>6. /\ next \in Loads /\ next.filters = load[s].filters /\ next.took = load[s].took
      /\ \A p \in PackNames : next.read[p] = IF p = pack THEN now ELSE load[s].read[p]
  BY <1>3, <1>4, <1>5 DEF Loads
<1>7. SlotsOK' /\ StoreFresh'
  BY <1>1, <1>2 DEF DashboardInv, SlotsOK, StoreFresh, ReadWithin, World
<1>8. LoadsFresh'
  <2>1. \A x \in Slots : load'[x] = (IF x = s THEN next ELSE load[x])
    BY <1>1 DEF DashboardInv, SlotsOK
  <2>2. next.took \in Nat
    BY <1>6 DEF Loads
  <2> HIDE DEF next
  <2>3. QED  BY <1>1, <1>2, <1>5, <1>6, <2>1, <2>2 DEF DashboardInv, LoadsFresh
<1>9. AnswersInTime'
  BY <1>1 DEF AnswersInTime
<1>10. QED  BY <1>2, <1>7, <1>8, <1>9 DEF DashboardInv

\* Whoever waits for a key asked for its endpoint and its filters, and gets
\* what was read since the load began.
LEMMA SettleAnswers ==
  ASSUME DashboardInv, NEW s \in Slots, NEW ok \in BOOLEAN,
         inflight[s] = "pending", Settle(s, ok),
         ok => \A pack \in Packs(s.endpoint) : load[s].read[pack] # Unread
  PROVE  AnswersInTime'
<1>1. UNCHANGED <<workload, age>> /\ Loads' = Loads
  BY WorldSame DEF Settle, World, DashboardInv
<1>2. load[s] \in Loads /\ load[s].filters = s.key /\ load[s].took \in Nat
  BY DashboardAssumption DEF DashboardInv, LoadsFresh, Loads
<1>3. ASSUME ok PROVE ReadWithin(load[s], Packs(s.endpoint), TTL + load[s].took)
  <2>1. Packs(s.endpoint) \in SUBSET PackNames
    BY PacksNamed
  <2>2. ReadWithin(load[s], Packs(s.endpoint), load[s].took)
    BY <1>3, <2>1 DEF DashboardInv, LoadsFresh, ReadWithin
  <2>3. StoryOK /\ load[s].took <= TTL + load[s].took /\ TTL + load[s].took \in Int
    BY <1>2, DashboardAssumption DEF DashboardInv
  <2>4. QED  BY <1>2, <2>1, <2>2, <2>3, ReadWithinLonger
<1>4. ASSUME NEW a \in answers'
      PROVE  /\ a.request \in workload /\ a.ok = ok /\ a.value = load[s]
             /\ s.key = a.request.filters /\ s.endpoint = a.request.endpoint
  <2>1. PICK c \in Sharers(s) : a = [request |-> waiting[c], ok |-> ok, value |-> load[s]]
    BY <1>4 DEF Settle, Told
  <2>2. waiting[c] \in workload /\ KeyOf(waiting[c]) = s
    BY <2>1 DEF Sharers, DashboardInv, SlotsOK
  <2>3. QED  BY <2>1, <2>2, KeyIsRequest
<1>5. QED  BY <1>1, <1>2, <1>3, <1>4 DEF AnswersInTime, ReadWithin

\* A load that ends leaves its key without a load and nobody waiting for it.
LEMMA SettleKeeps ==
  ASSUME DashboardInv, NEW s \in Slots, NEW ok, Settle(s, ok),
         inflight' = [inflight EXCEPT ![s] = "none"],
         DOMAIN store' = Slots, store' = [x \in Slots |-> store'[x]]
  PROVE  StoryOK' /\ SlotsOK' /\ LoadsFresh'
<1>1. /\ load' = [load EXCEPT ![s] = NoLoad]
      /\ waiting' = [c \in Clients |-> IF c \in Sharers(s) THEN NoRequest ELSE waiting[c]]
      /\ UNCHANGED World
  BY DEF Settle
<1>2. StoryOK' /\ Slots' = Slots /\ Loads' = Loads /\ UNCHANGED <<workload, age>>
  BY <1>1, WorldSame DEF DashboardInv, World
<1>3. SlotsOK'
  <2>1. waiting' \in [Clients -> workload \cup {NoRequest}]
    BY <1>1 DEF DashboardInv, SlotsOK
  <2>2. inflight' \in [Slots -> {"none", "pending", "rejected"}]
    BY DEF DashboardInv, SlotsOK
  <2>3. DOMAIN load' = Slots /\ load' = [x \in Slots |-> load'[x]]
    BY <1>1 DEF DashboardInv, SlotsOK
  <2>4. QED  BY <1>2, <2>1, <2>2, <2>3 DEF SlotsOK
<1>4. LoadsFresh'
  <2>1. \A x \in Slots : /\ load'[x] = (IF x = s THEN NoLoad ELSE load[x])
                         /\ inflight'[x] = (IF x = s THEN "none" ELSE inflight[x])
    BY <1>1 DEF DashboardInv, SlotsOK
  <2>2. NoLoad \in Loads /\ \A pack \in PackNames : NoLoad.read[pack] = Unread
    BY NoLoadType DEF DashboardInv
  <2>3. QED  BY <1>2, <2>1, <2>2 DEF DashboardInv, LoadsFresh
<1>5. QED  BY <1>2, <1>3, <1>4

LEMMA CompleteKeeps ==
  ASSUME DashboardInv, NEW s \in Slots, Complete(s)
  PROVE  DashboardInv'
<1>1. /\ inflight[s] = "pending"
      /\ \A pack \in Packs(s.endpoint) : load[s].read[pack] # Unread
      /\ store' = [store EXCEPT ![s] = Stored(load[s])]
      /\ inflight' = [inflight EXCEPT ![s] = "none"]
      /\ Settle(s, TRUE)
  BY DEF Complete
<1>2. AnswersInTime'
  BY <1>1, SettleAnswers
<1>3. DOMAIN store' = Slots /\ store' = [x \in Slots |-> store'[x]]
  BY <1>1 DEF DashboardInv, SlotsOK
<1>4. StoryOK' /\ SlotsOK' /\ LoadsFresh'
  BY <1>1, <1>3, SettleKeeps
<1>5. Slots' = Slots /\ Loads' = Loads /\ UNCHANGED age
  BY <1>1, WorldSame DEF Settle, World, DashboardInv
<1>6. StoreFresh'
  <2> DEFINE stored == Stored(load[s])
  <2>1. \A x \in Slots : store'[x] = IF x = s THEN stored ELSE store[x]
    BY <1>1 DEF DashboardInv, SlotsOK
  <2>2. load[s] \in Loads /\ load[s].filters = s.key /\ load[s].took \in Nat
    BY <1>1, DashboardAssumption DEF DashboardInv, LoadsFresh, Loads
  <2>3. /\ stored \in [known : BOOLEAN, left : 0..TTL, value : Loads]
        /\ stored.left = TTL /\ stored.value = load[s]
    BY <2>2, DashboardAssumption DEF Stored
  <2>4. ReadWithin(load[s], Packs(s.endpoint), load[s].took)
    BY <1>1, PacksNamed DEF DashboardInv, LoadsFresh, ReadWithin
  <2>5. load[s].took + (TTL - TTL) = load[s].took
    BY <2>2, DashboardAssumption
  <2> HIDE DEF stored
  <2>6. QED
    BY <1>5, <2>1, <2>2, <2>3, <2>4, <2>5 DEF DashboardInv, StoreFresh, ReadWithin
<1>7. QED  BY <1>2, <1>4, <1>6 DEF DashboardInv

LEMMA LoadFailsKeeps ==
  ASSUME DashboardInv, NEW s \in Slots, LoadFails(s)
  PROVE  DashboardInv'
<1>1. /\ inflight[s] = "pending"
      /\ inflight' = [inflight EXCEPT ![s] = "none"]
      /\ Settle(s, FALSE) /\ UNCHANGED store
  BY DEF LoadFails, AfterFailure
<1>2. AnswersInTime'
  BY <1>1, SettleAnswers
<1>3. StoryOK' /\ SlotsOK' /\ LoadsFresh'
  BY <1>1, SettleKeeps DEF DashboardInv, SlotsOK
<1>4. Slots' = Slots /\ Loads' = Loads /\ UNCHANGED age
  BY <1>1, WorldSame DEF Settle, World, DashboardInv
<1>5. StoreFresh'
  BY <1>1, <1>4 DEF DashboardInv, StoreFresh, ReadWithin
<1>6. QED  BY <1>2, <1>3, <1>5 DEF DashboardInv

\* Time passes for the table states that were replaced, for the entries and
\* for the loads alike.
LEMMA TickKeeps == ASSUME DashboardInv, Tick PROVE DashboardInv'
<1>1. /\ \A s \in Slots : inflight[s] = "pending" => load[s].took < MaxLoad
      /\ age' = [i \in 1..Len(story) |->
                   IF i < now /\ age[i] < Horizon THEN age[i] + 1 ELSE age[i]]
      /\ store' = [s \in Slots |-> Aged(s)]
      /\ load' = [s \in Slots |-> IF inflight[s] = "pending"
                                  THEN [load[s] EXCEPT !.took = load[s].took + 1] ELSE load[s]]
      /\ answers' = {}
      /\ UNCHANGED <<workload, story, now, inflight, waiting, up>>
  BY DEF Tick
<1>2. Slots' = Slots /\ Loads' = Loads
  BY <1>1 DEF Slots, Loads
<1>3. /\ now \in 1..Len(story) /\ Len(story) \in Nat \ {0} /\ Horizon \in Nat
      /\ age \in [1..Len(story) -> 0..Horizon] /\ \A i \in now..Len(story) : age[i] = 0
  BY StoryLength, DashboardAssumption DEF DashboardInv, StoryOK
<1>4. \A i \in 1..Len(story) :
        age[i] \in Nat /\ age'[i] \in 0..Horizon /\ age'[i] <= age[i] + 1
  BY <1>1, <1>3
<1>5. StoryOK'
  <2>1. age' \in [1..Len(story) -> 0..Horizon]
    BY <1>1, <1>4
  <2>2. \A i \in now..Len(story) : age'[i] = 0
    BY <1>1, <1>3
  <2>3. QED  BY <1>1, <2>1, <2>2 DEF DashboardInv, StoryOK
<1>6. SlotsOK'
  BY <1>1, <1>2 DEF DashboardInv, SlotsOK
<1>7. \A value \in Loads, packs \in SUBSET PackNames, since \in Int :
        ReadWithin(value, packs, since) =>
          \A pack \in packs : value.read[pack] # Unread /\ age'[value.read[pack]] <= since + 1
  <2> SUFFICES ASSUME NEW value \in Loads, NEW packs \in SUBSET PackNames, NEW since \in Int,
                      ReadWithin(value, packs, since), NEW pack \in packs
               PROVE  value.read[pack] # Unread /\ age'[value.read[pack]] <= since + 1
    OBVIOUS
  <2>1. value.read[pack] # Unread /\ age[value.read[pack]] <= since
    BY DEF ReadWithin
  <2>2. value.read[pack] \in 1..Len(story)
    BY <2>1, ReadHasAge DEF DashboardInv
  <2> DEFINE i == value.read[pack]
  <2>3. age[i] \in Nat /\ age'[i] \in Nat /\ age'[i] <= age[i] + 1
    BY <1>3, <1>4, <2>2
  <2>4. QED  BY <2>1, <2>3
<1>8. LoadsFresh'
  <2> SUFFICES ASSUME NEW s \in Slots
               PROVE  /\ load'[s] \in Loads
                      /\ inflight[s] = "pending" => load'[s].filters = s.key
                      /\ \A pack \in PackNames :
                           load'[s].read[pack] # Unread =>
                             age'[load'[s].read[pack]] <= load'[s].took
                      /\ inflight[s] # "pending" => load'[s] = NoLoad
    BY <1>1, <1>2 DEF LoadsFresh
  <2>1. /\ load[s] \in Loads /\ load[s].took \in 0..MaxLoad
        /\ inflight[s] = "pending" => load[s].filters = s.key
        /\ \A pack \in PackNames :
             load[s].read[pack] # Unread => age[load[s].read[pack]] <= load[s].took
        /\ inflight[s] # "pending" => load[s] = NoLoad
    BY DEF DashboardInv, LoadsFresh, Loads
  <2>2. CASE inflight[s] = "pending"
    <3> DEFINE next == [load[s] EXCEPT !.took = load[s].took + 1]
    <3>1. load'[s] = next /\ load[s].took < MaxLoad
      BY <1>1, <2>2
    <3>2. load[s].took + 1 \in 0..MaxLoad
      BY <2>1, <3>1, DashboardAssumption
    <3>3. next \in Loads /\ next.filters = load[s].filters /\ next.read = load[s].read
          /\ next.took = load[s].took + 1
      BY <2>1, <3>2 DEF Loads
    <3> HIDE DEF next
    <3>4. ASSUME NEW pack \in PackNames, load[s].read[pack] # Unread
          PROVE  age'[load[s].read[pack]] <= load[s].took + 1
      <4>1. age[load[s].read[pack]] <= load[s].took /\ load[s].took \in Int
        BY <2>1, <3>4
      <4>2. {pack} \in SUBSET PackNames /\ ReadWithin(load[s], {pack}, load[s].took)
        BY <3>4, <4>1 DEF ReadWithin
      <4>3. QED  BY <1>7, <2>1, <4>1, <4>2
    <3>5. QED  BY <2>1, <2>2, <3>1, <3>3, <3>4
  <2>3. CASE inflight[s] # "pending"
    <3>1. load'[s] = NoLoad /\ load[s] = NoLoad
      BY <1>1, <2>1, <2>3
    <3>2. \A pack \in PackNames : NoLoad.read[pack] = Unread
      BY NoLoadType DEF DashboardInv
    <3>3. QED  BY <2>1, <2>3, <3>1, <3>2
  <2>4. QED  BY <2>2, <2>3
<1>9. StoreFresh'
  <2> DEFINE Since(entry) == entry.value.took + (TTL - entry.left)
  <2> SUFFICES ASSUME NEW s \in Slots
               PROVE  /\ store'[s] \in [known : BOOLEAN, left : 0..TTL, value : Loads]
                      /\ store'[s].known =>
                           /\ store'[s].value.filters = s.key
                           /\ \A pack \in Packs(s.endpoint) :
                                /\ store'[s].value.read[pack] # Unread
                                /\ age'[store'[s].value.read[pack]] <= Since(store'[s])
    BY <1>1, <1>2 DEF StoreFresh, ReadWithin
  <2>1. /\ store[s] \in [known : BOOLEAN, left : 0..TTL, value : Loads]
        /\ store[s].value.took \in Nat /\ TTL \in Nat
        /\ store[s].known =>
             /\ store[s].value.filters = s.key
             /\ ReadWithin(store[s].value, Packs(s.endpoint), Since(store[s]))
    BY DashboardAssumption DEF DashboardInv, StoreFresh, Loads
  <2>2. CASE store[s].left = 0
    <3>1. store'[s] = [known |-> FALSE, left |-> 0, value |-> NoLoad]
      BY <1>1, <2>2 DEF Aged, NoEntry
    <3>2. QED  BY <2>1, <3>1, NoLoadType DEF DashboardInv
  <2>3. CASE store[s].left # 0
    <3> DEFINE aged == [store[s] EXCEPT !.left = store[s].left - 1]
    <3>1. store'[s] = aged
      BY <1>1, <2>3 DEF Aged
    <3>2. /\ aged \in [known : BOOLEAN, left : 0..TTL, value : Loads]
          /\ aged.known = store[s].known /\ aged.value = store[s].value
          /\ aged.left = store[s].left - 1
      BY <2>1, <2>3
    <3>3. Since(aged) = Since(store[s]) + 1 /\ Since(store[s]) \in Int
      BY <2>1, <3>2
    <3>4. Packs(s.endpoint) \in SUBSET PackNames
      BY PacksNamed
    <3> HIDE DEF aged, Since
    <3>5. QED  BY <1>7, <2>1, <3>1, <3>2, <3>3, <3>4
  <2>4. QED  BY <2>2, <2>3
<1>10. AnswersInTime'
  BY <1>1 DEF AnswersInTime
<1>11. QED  BY <1>5, <1>6, <1>8, <1>9, <1>10 DEF DashboardInv

\* The tables change: the state that was current is not yet old.
LEMMA WriteKeeps == ASSUME DashboardInv, Write PROVE DashboardInv'
<1>1. /\ now < Len(story) /\ now' = now + 1 /\ answers' = {}
      /\ UNCHANGED <<workload, story, age, store, inflight, load, waiting, up>>
  BY DEF Write
<1>2. now \in 1..Len(story) /\ Len(story) \in Nat \ {0}
  BY StoryLength DEF DashboardInv, StoryOK
<1>3. StoryOK'
  BY <1>1, <1>2 DEF DashboardInv, StoryOK
<1>4. Slots' = Slots
  BY <1>1 DEF Slots
<1>5. \A value \in Loads : value \in Loads'
  <2>1. 0..now \subseteq 0..now'
    BY <1>1, <1>2
  <2>2. QED  BY <1>1, <2>1 DEF Loads
<1>6. \A entry \in [known : BOOLEAN, left : 0..TTL, value : Loads] :
        entry \in [known : BOOLEAN, left : 0..TTL, value : Loads']
  BY <1>5
<1>7. LoadsFresh'
  BY <1>1, <1>4, <1>5 DEF DashboardInv, LoadsFresh
<1>8. StoreFresh'
  BY <1>1, <1>4, <1>6 DEF DashboardInv, StoreFresh, ReadWithin
<1>9. SlotsOK' /\ AnswersInTime'
  BY <1>1, <1>4 DEF DashboardInv, SlotsOK, AnswersInTime
<1>10. QED  BY <1>3, <1>7, <1>8, <1>9 DEF DashboardInv

LEMMA DatabaseKeeps ==
  ASSUME DashboardInv, GoDown \/ ComeUp
  PROVE  DashboardInv'
<1>1. /\ answers' = {} /\ up' \in BOOLEAN
      /\ UNCHANGED <<workload, story, now, age, store, inflight, load, waiting>>
  BY DEF GoDown, ComeUp
<1>2. StoryOK' /\ Slots' = Slots /\ Loads' = Loads
  BY <1>1 DEF DashboardInv, StoryOK, Slots, Loads
<1>3. LoadsFresh' /\ StoreFresh' /\ SlotsOK' /\ AnswersInTime'
  BY <1>1, <1>2 DEF DashboardInv, LoadsFresh, StoreFresh, ReadWithin, SlotsOK, AnswersInTime
<1>4. QED  BY <1>2, <1>3 DEF DashboardInv

LEMMA DashboardInvStep == DashboardInv /\ [Next]_vars => DashboardInv'
<1> SUFFICES ASSUME DashboardInv, [Next]_vars PROVE DashboardInv'
  OBVIOUS
<1>1. ASSUME NEW c \in Clients, NEW r \in workload, Get(c, r) PROVE DashboardInv'
  BY <1>1, AnswerAtOnceKeeps, JoinKeeps, StartLoadKeeps DEF Get
<1>2. ASSUME NEW s \in Slots, Progress(s) PROVE DashboardInv'
  BY <1>2, ReadPackKeeps, CompleteKeeps, LoadFailsKeeps DEF Progress
<1>3. CASE Tick   BY <1>3, TickKeeps
<1>4. CASE Write  BY <1>4, WriteKeeps
<1>5. CASE GoDown \/ ComeUp  BY <1>5, DatabaseKeeps
<1>6. CASE UNCHANGED vars
  <2>1. UNCHANGED <<workload, story, now, age, store, inflight, load, waiting, answers, up>>
    BY <1>6 DEF vars
  <2>2. Slots' = Slots /\ Loads' = Loads
    BY <2>1 DEF Slots, Loads
  <2>3. QED
    BY <2>1, <2>2 DEF DashboardInv, StoryOK, SlotsOK, LoadsFresh, StoreFresh, ReadWithin, AnswersInTime
<1>7. QED  BY <1>1, <1>2, <1>3, <1>4, <1>5, <1>6 DEF Next

\* The inductive invariant of Dashboard.
THEOREM DashboardInvariant == Spec => []DashboardInv
BY DashboardInvInit, DashboardInvStep, PTL DEF Spec

\* Behaviours, entries, loads, requests and answers stay in their sets.
THEOREM DashboardTyped == Spec => []TypeOK
<1>1. DashboardInv => TypeOK
  <2> SUFFICES ASSUME DashboardInv PROVE TypeOK
    OBVIOUS
  <2>1. \A l \in Loads : IsLoad(l)
    BY DEF Loads, IsLoad, PackNames
  <2>2. \A s \in Slots : /\ store[s].known \in BOOLEAN /\ store[s].left \in 0..TTL
                         /\ IsLoad(store[s].value) /\ IsLoad(load[s])
    BY <2>1 DEF DashboardInv, StoreFresh, LoadsFresh
  <2>3. \A a \in answers : a.request \in workload /\ a.ok \in BOOLEAN /\ IsLoad(a.value)
    BY <2>1 DEF DashboardInv, AnswersInTime
  <2>4. QED  BY <2>2, <2>3 DEF DashboardInv, StoryOK, SlotsOK, TypeOK
<1>2. QED  BY <1>1, DashboardInvariant, PTL

\* Whoever else asks, whatever is cached and shared, each figure a client gets
\* is that of its own filters in a table state that was current no longer ago
\* than the TTL and the time the load took.
THEOREM AnswersAreFresh == Spec => []AnswersFresh
<1>1. DashboardInv => AnswersFresh
  <2> SUFFICES ASSUME DashboardInv, NEW a \in answers, a.ok,
                      NEW pack \in Packs(a.request.endpoint)
               PROVE  /\ a.value.read[pack] # Unread
                      /\ PackOf(a.value, pack) =
                           PackOf([a.value EXCEPT !.filters = a.request.filters], pack)
                      /\ age[a.value.read[pack]] <= TTL + a.value.took
    BY DEF AnswersFresh
  <2>1. /\ a.value \in Loads /\ a.value.filters = a.request.filters
        /\ ReadWithin(a.value, Packs(a.request.endpoint), TTL + a.value.took)
    BY DEF DashboardInv, AnswersInTime
  <2>2. [a.value EXCEPT !.filters = a.request.filters] = a.value
    BY <2>1 DEF Loads
  <2>3. QED  BY <2>1, <2>2 DEF ReadWithin
<1>2. QED  BY <1>1, DashboardInvariant, PTL

-----------------------------------------------------------------------------
(* Filters and groups *)

\* One filter is set, the others are as they were.
LEMMA RefinedFields ==
  ASSUME NEW filters, DOMAIN filters = DOMAIN NoFilters,
         NEW field \in DOMAIN NoFilters, NEW value
  PROVE  /\ Refined(filters, field, value)[field] = value
         /\ \A other \in DOMAIN NoFilters \ {field} :
              Refined(filters, field, value)[other] = filters[other]
BY DEF Refined

LEMMA FilterNames ==
  DOMAIN NoFilters = {"state", "crop", "harvestYear", "esgStatus", "carStatus",
                      "minClimateRisk", "maxClimateRisk"}
BY DEF NoFilters

\* A filter for the state selects the farms of the group of the state.
LEMMA SelectedInState ==
  ASSUME NEW t, NEW filters, DOMAIN filters = DOMAIN NoFilters, filters.state = Unset,
         NEW state, state # Unset
  PROVE  Selected(t, Refined(filters, "state", state)) =
           {x \in Selected(t, filters) : t.farms[x].state = state}
<1> DEFINE part == Refined(filters, "state", state)
<1>1. /\ part.state = state /\ part.crop = filters.crop
      /\ part.harvestYear = filters.harvestYear /\ part.esgStatus = filters.esgStatus
      /\ part.carStatus = filters.carStatus /\ part.minClimateRisk = filters.minClimateRisk
      /\ part.maxClimateRisk = filters.maxClimateRisk
  BY RefinedFields, FilterNames
<1> HIDE DEF part
<1>2. \A x : Grows(t, x, part) <=> Grows(t, x, filters)
  BY <1>1 DEF Grows
<1>3. Selected(t, part) = {x \in Selected(t, filters) : t.farms[x].state = state}
  BY <1>1, <1>2 DEF Selected, Matches
<1>4. QED  BY <1>3 DEF part

LEMMA SelectedWithCar ==
  ASSUME NEW t, NEW filters, DOMAIN filters = DOMAIN NoFilters, filters.carStatus = Unset,
         NEW status, status # Unset
  PROVE  Selected(t, Refined(filters, "carStatus", status)) =
           {x \in Selected(t, filters) : t.farms[x].carStatus = status}
<1> DEFINE part == Refined(filters, "carStatus", status)
<1>1. /\ part.state = filters.state /\ part.crop = filters.crop
      /\ part.harvestYear = filters.harvestYear /\ part.esgStatus = filters.esgStatus
      /\ part.carStatus = status /\ part.minClimateRisk = filters.minClimateRisk
      /\ part.maxClimateRisk = filters.maxClimateRisk
  BY RefinedFields, FilterNames
<1> HIDE DEF part
<1>2. \A x : Grows(t, x, part) <=> Grows(t, x, filters)
  BY <1>1 DEF Grows
<1>3. Selected(t, part) = {x \in Selected(t, filters) : t.farms[x].carStatus = status}
  BY <1>1, <1>2 DEF Selected, Matches
<1>4. QED  BY <1>3 DEF part

LEMMA SelectedWithEsg ==
  ASSUME NEW t, NEW filters, DOMAIN filters = DOMAIN NoFilters, filters.esgStatus = Unset,
         NEW status, status # Unset
  PROVE  Selected(t, Refined(filters, "esgStatus", status)) =
           {x \in Selected(t, filters) :
              /\ t.producers[t.farms[x].producer].live
              /\ t.producers[t.farms[x].producer].esgStatus = status}
<1> DEFINE part == Refined(filters, "esgStatus", status)
<1>1. /\ part.state = filters.state /\ part.crop = filters.crop
      /\ part.harvestYear = filters.harvestYear /\ part.esgStatus = status
      /\ part.carStatus = filters.carStatus /\ part.minClimateRisk = filters.minClimateRisk
      /\ part.maxClimateRisk = filters.maxClimateRisk
  BY RefinedFields, FilterNames
<1> HIDE DEF part
<1>2. \A x : Grows(t, x, part) <=> Grows(t, x, filters)
  BY <1>1 DEF Grows
<1>3. \A x : /\ OwnedBy(t, x, Unset)
             /\ OwnedBy(t, x, status) <=>
                  /\ t.producers[t.farms[x].producer].live
                  /\ t.producers[t.farms[x].producer].esgStatus = status
  BY DEF OwnedBy
<1>4. Selected(t, part) =
        {x \in Selected(t, filters) :
              /\ t.producers[t.farms[x].producer].live
              /\ t.producers[t.farms[x].producer].esgStatus = status}
  BY <1>1, <1>2, <1>3 DEF Selected
<1>5. QED  BY <1>4 DEF part

\* crop alone asks for an active harvest that has it, whatever its year.
LEMMA SelectedWithCrop ==
  ASSUME NEW t, NEW filters, DOMAIN filters = DOMAIN NoFilters,
         filters.crop = Unset, filters.harvestYear = Unset,
         NEW crop, crop # Unset
  PROVE  Selected(t, Refined(filters, "crop", crop)) =
           {x \in Selected(t, filters) :
              \E harvest \in t.harvests :
                harvest.farm = x /\ InSeason(harvest) /\ crop \in harvest.crops}
<1> DEFINE part == Refined(filters, "crop", crop)
<1>1. /\ part.state = filters.state /\ part.crop = crop
      /\ part.harvestYear = filters.harvestYear /\ part.esgStatus = filters.esgStatus
      /\ part.carStatus = filters.carStatus /\ part.minClimateRisk = filters.minClimateRisk
      /\ part.maxClimateRisk = filters.maxClimateRisk
  BY RefinedFields, FilterNames
<1> HIDE DEF part
<1>2. \A x : /\ Grows(t, x, filters)
             /\ Grows(t, x, part) <=>
                  \E harvest \in t.harvests :
                    harvest.farm = x /\ InSeason(harvest) /\ crop \in harvest.crops
  BY <1>1 DEF Grows, Matches
<1>3. Selected(t, part) =
        {x \in Selected(t, filters) :
              \E harvest \in t.harvests :
                harvest.farm = x /\ InSeason(harvest) /\ crop \in harvest.crops}
  BY <1>1, <1>2 DEF Selected
<1>4. QED  BY <1>3 DEF part

\* A least risk of 0 leaves out the farms without a score and no other.
LEMMA SelectedWithScore ==
  ASSUME NEW t, IsTables(t), NEW filters, DOMAIN filters = DOMAIN NoFilters,
         filters.minClimateRisk = Unset
  PROVE  Selected(t, Refined(filters, "minClimateRisk", 0)) = Scored(t, Selected(t, filters))
<1> DEFINE part == Refined(filters, "minClimateRisk", 0)
<1>1. /\ part.state = filters.state /\ part.crop = filters.crop
      /\ part.harvestYear = filters.harvestYear /\ part.esgStatus = filters.esgStatus
      /\ part.carStatus = filters.carStatus /\ part.minClimateRisk = 0
      /\ part.maxClimateRisk = filters.maxClimateRisk
  BY RefinedFields, FilterNames
<1> HIDE DEF part
<1>2. \A x : Grows(t, x, part) <=> Grows(t, x, filters)
  BY <1>1 DEF Grows
<1>3. \A x \in DOMAIN t.farms :
        /\ AtLeast(t.farms[x].score, Unset)
        /\ AtLeast(t.farms[x].score, 0) <=> t.farms[x].score # NoScore
  BY DashboardQueriesAssumption DEF IsTables, AtLeast
<1>4. Selected(t, part) = Scored(t, Selected(t, filters))
  BY <1>1, <1>2, <1>3 DEF Selected, Scored
<1>5. QED  BY <1>4 DEF part

\* The groups are those of the values there are; each has the rows with its value.
LEMMA GroupByDomain ==
  ASSUME NEW key
  PROVE  DOMAIN GroupBy(key) = {key[x] : x \in DOMAIN key}
BY DEF GroupBy

LEMMA GroupByMember ==
  ASSUME NEW key, NEW k \in DOMAIN GroupBy(key)
  PROVE  /\ \E x \in DOMAIN key : key[x] = k
         /\ GroupBy(key)[k] = {x \in DOMAIN key : key[x] = k}
BY DEF GroupBy

LEMMA StateDrillDown ==
  ASSUME NEW t, IsTables(t), NEW filters, DOMAIN filters = DOMAIN NoFilters,
         filters.state = Unset,
         NEW s \in DOMAIN FarmsPack(t, filters).byState
  PROVE  LET part == FarmsPack(t, Refined(filters, "state", s))
         IN <<part.totalFarms, part.totalHectares>> =
              <<FarmsPack(t, filters).byState[s].count,
                FarmsPack(t, filters).byState[s].hectares>>
<1> DEFINE f == Selected(t, filters)
           key == [x \in f |-> t.farms[x].state]
           group == {x \in f : t.farms[x].state = s}
           part == Selected(t, Refined(filters, "state", s))
<1>1. FarmsPack(t, filters).byState = CountAndArea(t, GroupBy(key))
  BY DEF FarmsPack
<1>0. DOMAIN key = f /\ \A x \in f : key[x] = t.farms[x].state
  OBVIOUS
<1> HIDE DEF key
<1>2. s \in DOMAIN GroupBy(key)
  BY <1>1 DEF CountAndArea
<1>3. (\E x \in DOMAIN key : key[x] = s) /\ GroupBy(key)[s] = {x \in DOMAIN key : key[x] = s}
  BY <1>2, GroupByMember
<1>4. GroupBy(key)[s] = group
  BY <1>0, <1>3
<1>5. PICK x \in f : s = t.farms[x].state
  BY <1>0, <1>3
<1>6. f \subseteq DOMAIN t.farms
  BY DEF Selected
<1>7. s # Unset
  BY <1>5, <1>6 DEF IsTables
<1>8. part = group
  BY <1>7, SelectedInState
<1>9. FarmsPack(t, filters).byState[s] =
        [count |-> Cardinality(group), hectares |-> Hectares(t, group)]
  BY <1>1, <1>2, <1>4 DEF CountAndArea
<1>10. /\ FarmsPack(t, Refined(filters, "state", s)).totalFarms = Cardinality(part)
       /\ FarmsPack(t, Refined(filters, "state", s)).totalHectares = Hectares(t, part)
  BY DEF FarmsPack
<1> HIDE DEF part, group
<1>11. QED  BY <1>8, <1>9, <1>10

LEMMA CarDrillDown ==
  ASSUME NEW t, IsTables(t), NEW filters, DOMAIN filters = DOMAIN NoFilters,
         filters.carStatus = Unset,
         NEW c \in DOMAIN FarmsPack(t, filters).byCar
  PROVE  FarmsPack(t, Refined(filters, "carStatus", c)).totalFarms =
           FarmsPack(t, filters).byCar[c]
<1> DEFINE f == Selected(t, filters)
           key == [x \in f |-> t.farms[x].carStatus]
           group == {x \in f : t.farms[x].carStatus = c}
           part == Selected(t, Refined(filters, "carStatus", c))
<1>1. FarmsPack(t, filters).byCar = [k \in DOMAIN GroupBy(key) |-> Cardinality(GroupBy(key)[k])]
  BY DEF FarmsPack, CarGroups
<1>0. DOMAIN key = f /\ \A x \in f : key[x] = t.farms[x].carStatus
  OBVIOUS
<1> HIDE DEF key
<1>2. c \in DOMAIN GroupBy(key)
  BY <1>1
<1>3. (\E x \in DOMAIN key : key[x] = c) /\ GroupBy(key)[c] = {x \in DOMAIN key : key[x] = c}
  BY <1>2, GroupByMember
<1>4. GroupBy(key)[c] = group
  BY <1>0, <1>3
<1>5. PICK x \in f : c = t.farms[x].carStatus
  BY <1>0, <1>3
<1>6. f \subseteq DOMAIN t.farms
  BY DEF Selected
<1>7. c # Unset
  BY <1>5, <1>6 DEF IsTables
<1>8. part = group
  BY <1>7, SelectedWithCar
<1>9. FarmsPack(t, filters).byCar[c] = Cardinality(group)
  BY <1>1, <1>2, <1>4
<1>10. FarmsPack(t, Refined(filters, "carStatus", c)).totalFarms = Cardinality(part)
  BY DEF FarmsPack
<1> HIDE DEF part, group
<1>11. QED  BY <1>8, <1>9, <1>10

LEMMA ScoreDrillDown ==
  ASSUME NEW t, IsTables(t), NEW filters, DOMAIN filters = DOMAIN NoFilters,
         filters.minClimateRisk = Unset
  PROVE  FarmsPack(t, Refined(filters, "minClimateRisk", 0)).totalFarms =
           FarmsPack(t, filters).climateCount
<1> DEFINE part == Selected(t, Refined(filters, "minClimateRisk", 0))
           scored == Scored(t, Selected(t, filters))
<1>1. part = scored
  BY SelectedWithScore
<1>2. FarmsPack(t, Refined(filters, "minClimateRisk", 0)).totalFarms = Cardinality(part)
  BY DEF FarmsPack
<1>3. FarmsPack(t, filters).climateCount = Cardinality(scored)
  BY DEF FarmsPack
<1> HIDE DEF part, scored
<1>4. QED  BY <1>1, <1>2, <1>3

\* The live owners of one status are the owners of the farms selected for it.
LEMMA EsgDrillDown ==
  ASSUME NEW t, IsTables(t), NEW filters, DOMAIN filters = DOMAIN NoFilters,
         filters.esgStatus = Unset,
         NEW e \in DOMAIN EsgPack(t, filters)
  PROVE  EsgPack(t, Refined(filters, "esgStatus", e)) =
           [status \in {e} |-> EsgPack(t, filters)[e]]
<1> DEFINE Owners(f) == {o \in {t.farms[x].producer : x \in f} : t.producers[o].live}
           f == Selected(t, filters)
           part == Selected(t, Refined(filters, "esgStatus", e))
           key == [p \in Owners(f) |-> t.producers[p].esgStatus]
           keyOfPart == [p \in Owners(part) |-> t.producers[p].esgStatus]
           group == {p \in Owners(f) : t.producers[p].esgStatus = e}
<1>1. /\ EsgPack(t, filters) = [k \in DOMAIN GroupBy(key) |-> Cardinality(GroupBy(key)[k])]
      /\ EsgPack(t, Refined(filters, "esgStatus", e)) =
           [k \in DOMAIN GroupBy(keyOfPart) |-> Cardinality(GroupBy(keyOfPart)[k])]
  BY DEF EsgPack
<1>2. DOMAIN key = Owners(f) /\ \A p \in Owners(f) : key[p] = t.producers[p].esgStatus
  OBVIOUS
<1>3. /\ DOMAIN keyOfPart = Owners(part)
      /\ \A p \in Owners(part) : keyOfPart[p] = t.producers[p].esgStatus
  OBVIOUS
<1> HIDE DEF key, keyOfPart
<1>4. e \in DOMAIN GroupBy(key)
  BY <1>1
<1>5. (\E x \in DOMAIN key : key[x] = e) /\ GroupBy(key)[e] = {x \in DOMAIN key : key[x] = e}
  BY <1>4, GroupByMember
<1>6. PICK p \in Owners(f) : e = t.producers[p].esgStatus
  BY <1>2, <1>5
<1>7. GroupBy(key)[e] = group
  BY <1>2, <1>5
<1>8. f \subseteq DOMAIN t.farms
  BY DEF Selected
<1>9. e # Unset
  BY <1>6, <1>8 DEF IsTables
<1>10. part = {x \in f : /\ t.producers[t.farms[x].producer].live
                        /\ t.producers[t.farms[x].producer].esgStatus = e}
  BY <1>9, SelectedWithEsg
<1> HIDE DEF f, part
<1>11. Owners(part) = group
  BY <1>10
<1>12. \A o \in DOMAIN keyOfPart : keyOfPart[o] = e
  BY <1>3, <1>11
<1>13. p \in DOMAIN keyOfPart
  BY <1>3, <1>6, <1>11
<1>14. DOMAIN GroupBy(keyOfPart) = {e}
  <2>1. {keyOfPart[x] : x \in DOMAIN keyOfPart} = {e}
    BY <1>12, <1>13
  <2>2. QED  BY <2>1, GroupByDomain
<1>15. GroupBy(keyOfPart)[e] = group
  <2>1. GroupBy(keyOfPart)[e] = {x \in DOMAIN keyOfPart : keyOfPart[x] = e}
    BY <1>14, GroupByMember
  <2>2. QED  BY <1>3, <1>11, <1>12, <2>1
<1> HIDE DEF group
<1>16. EsgPack(t, Refined(filters, "esgStatus", e)) = [k \in {e} |-> Cardinality(group)]
  BY <1>1, <1>14, <1>15
<1>17. EsgPack(t, filters)[e] = Cardinality(group)
  BY <1>1, <1>4, <1>7
<1>18. QED  BY <1>16, <1>17

\* A row of active_crops names a crop of a harvest.
LEMMA ActiveCropOrigin ==
  ASSUME NEW t, NEW f, NEW row \in ActiveCrops(t, f)
  PROVE  \E harvest \in t.harvests : row.name \in harvest.crops
BY DEF ActiveCrops

\* The rows of active_crops that name a crop come from the active harvests that
\* have it.
LEMMA ActiveCropRows ==
  ASSUME NEW t, NEW f, NEW crop, NEW x
  PROVE  (\E row \in ActiveCrops(t, f) : row.name = crop /\ row.farm = x) <=>
           /\ x \in f
           /\ \E harvest \in t.harvests :
                harvest.farm = x /\ InSeason(harvest) /\ crop \in harvest.crops
<1> DEFINE Rows(harvest) ==
             {[farm |-> harvest.farm, year |-> harvest.year, name |-> c] : c \in harvest.crops}
           Active == {h \in t.harvests : h.farm \in f /\ h.status = "ACTIVE"}
<1>1. ActiveCrops(t, f) = UNION {Rows(harvest) : harvest \in Active}
  BY DEF ActiveCrops
<1>2. \A row : row \in ActiveCrops(t, f) <=> \E harvest \in Active : row \in Rows(harvest)
  BY <1>1
<1>3. ASSUME NEW harvest
      PROVE  /\ \A row \in Rows(harvest) : row.farm = harvest.farm /\ row.name \in harvest.crops
             /\ crop \in harvest.crops =>
                  \E row \in Rows(harvest) : row.name = crop /\ row.farm = harvest.farm
  <2> DEFINE row == [farm |-> harvest.farm, year |-> harvest.year, name |-> crop]
  <2>1. crop \in harvest.crops => row \in Rows(harvest)
    OBVIOUS
  <2>2. row.name = crop /\ row.farm = harvest.farm
    OBVIOUS
  <2>3. \A r \in Rows(harvest) : r.farm = harvest.farm /\ r.name \in harvest.crops
    OBVIOUS
  <2> HIDE DEF Rows, row
  <2>4. QED  BY <2>1, <2>2, <2>3
<1> HIDE DEF Rows
<1>4. QED  BY <1>2, <1>3 DEF InSeason

LEMMA CropDrillDown ==
  ASSUME NEW t, IsTables(t), NEW filters, DOMAIN filters = DOMAIN NoFilters,
         filters.crop = Unset, filters.harvestYear = Unset,
         NEW c \in DOMAIN CropsPack(t, filters).climateByCrop
  PROVE  FarmsPack(t, Refined(filters, "crop", c)).climateCount =
           CropsPack(t, filters).climateByCrop[c].farmsWithScore
<1> DEFINE f == Selected(t, filters)
           part == Selected(t, Refined(filters, "crop", c))
           rows == {row \in ActiveCrops(t, f) : t.farms[row.farm].score # NoScore}
           key == [crop \in rows |-> crop.name]
           group == {row \in rows : row.name = c}
<1>1. /\ DOMAIN CropsPack(t, filters).climateByCrop = DOMAIN GroupBy(key)
      /\ \A k \in DOMAIN GroupBy(key) :
           CropsPack(t, filters).climateByCrop[k].farmsWithScore =
             Cardinality({row.farm : row \in GroupBy(key)[k]})
  BY DEF CropsPack
<1>2. DOMAIN key = rows /\ \A row \in rows : key[row] = row.name
  OBVIOUS
<1> HIDE DEF key
<1>3. c \in DOMAIN GroupBy(key)
  BY <1>1
<1>4. (\E x \in DOMAIN key : key[x] = c) /\ GroupBy(key)[c] = {x \in DOMAIN key : key[x] = c}
  BY <1>3, GroupByMember
<1>5. GroupBy(key)[c] = group
  BY <1>2, <1>4
<1>6. PICK row \in rows : row.name = c
  BY <1>2, <1>4
<1>7. \E harvest \in t.harvests : c \in harvest.crops
  <2>1. row \in ActiveCrops(t, f)
    BY <1>6
  <2>2. QED  BY <1>6, <2>1, ActiveCropOrigin
<1>8. c # Unset
  BY <1>7 DEF IsTables
<1>9. part = {x \in f : \E harvest \in t.harvests :
                         harvest.farm = x /\ InSeason(harvest) /\ c \in harvest.crops}
  BY <1>8, SelectedWithCrop
<1> HIDE DEF f, part
<1>10. \A x : (\E r \in ActiveCrops(t, f) : r.name = c /\ r.farm = x) <=> x \in part
  BY <1>9, ActiveCropRows
<1>11. {r.farm : r \in group} = Scored(t, part)
  <2>1. \A x : x \in {r.farm : r \in group} <=>
              /\ \E r \in ActiveCrops(t, f) : r.name = c /\ r.farm = x
              /\ t.farms[x].score # NoScore
    OBVIOUS
  <2>2. QED  BY <1>10, <2>1 DEF Scored
<1>12. FarmsPack(t, Refined(filters, "crop", c)).climateCount = Cardinality(Scored(t, part))
  BY DEF FarmsPack, part
<1> HIDE DEF group
<1>13. QED  BY <1>1, <1>3, <1>5, <1>11, <1>12

\* What a group of an answer says is what the answer for that group says,
\* whatever the tables hold: a filter selects the farms that the figures
\* without it count in the group.
THEOREM DrillDownAgreement == Spec => []DrillDownAgrees
<1>1. DashboardInv => DrillDownAgrees
  <2> SUFFICES ASSUME DashboardInv, NEW filters \in FilterSets
               PROVE  LET t == story[now]
                          whole == FarmsPack(t, filters)
                          crops == CropsPack(t, filters)
                          esg == EsgPack(t, filters)
                      IN /\ filters.state = Unset => \A s \in DOMAIN whole.byState :
                              LET part == FarmsPack(t, Refined(filters, "state", s))
                              IN <<part.totalFarms, part.totalHectares>> =
                                   <<whole.byState[s].count, whole.byState[s].hectares>>
                         /\ filters.carStatus = Unset => \A c \in DOMAIN whole.byCar \ {NoCar} :
                              FarmsPack(t, Refined(filters, "carStatus", c)).totalFarms =
                                whole.byCar[c]
                         /\ filters.esgStatus = Unset => \A e \in DOMAIN esg :
                              EsgPack(t, Refined(filters, "esgStatus", e)) =
                                [status \in {e} |-> esg[e]]
                         /\ filters.crop = Unset /\ filters.harvestYear = Unset =>
                              \A c \in DOMAIN crops.climateByCrop :
                                FarmsPack(t, Refined(filters, "crop", c)).climateCount =
                                  crops.climateByCrop[c].farmsWithScore
                         /\ filters.minClimateRisk = Unset =>
                              FarmsPack(t, Refined(filters, "minClimateRisk", 0)).totalFarms =
                                whole.climateCount
    BY DEF DrillDownAgrees
  <2> DEFINE t == story[now]
  <2>1. IsTables(t)
    BY StoryLength DEF DashboardInv, StoryOK
  <2>2. DOMAIN filters = DOMAIN NoFilters
    BY BehavioursAssumption
  <2> HIDE DEF t
  <2>3. filters.state = Unset => \A s \in DOMAIN FarmsPack(t, filters).byState :
          LET part == FarmsPack(t, Refined(filters, "state", s))
          IN <<part.totalFarms, part.totalHectares>> =
               <<FarmsPack(t, filters).byState[s].count,
                 FarmsPack(t, filters).byState[s].hectares>>
    BY <2>1, <2>2, StateDrillDown
  <2>4. filters.carStatus = Unset => \A c \in DOMAIN FarmsPack(t, filters).byCar :
          FarmsPack(t, Refined(filters, "carStatus", c)).totalFarms =
            FarmsPack(t, filters).byCar[c]
    BY <2>1, <2>2, CarDrillDown
  <2>5. filters.esgStatus = Unset => \A e \in DOMAIN EsgPack(t, filters) :
          EsgPack(t, Refined(filters, "esgStatus", e)) =
            [status \in {e} |-> EsgPack(t, filters)[e]]
    <3> SUFFICES ASSUME filters.esgStatus = Unset, NEW e \in DOMAIN EsgPack(t, filters)
                 PROVE  EsgPack(t, Refined(filters, "esgStatus", e)) =
                          [status \in {e} |-> EsgPack(t, filters)[e]]
      OBVIOUS
    <3>1. QED  BY <2>1, <2>2, EsgDrillDown
  <2>6. filters.crop = Unset /\ filters.harvestYear = Unset =>
          \A c \in DOMAIN CropsPack(t, filters).climateByCrop :
            FarmsPack(t, Refined(filters, "crop", c)).climateCount =
              CropsPack(t, filters).climateByCrop[c].farmsWithScore
    BY <2>1, <2>2, CropDrillDown
  <2>7. filters.minClimateRisk = Unset =>
          FarmsPack(t, Refined(filters, "minClimateRisk", 0)).totalFarms =
            FarmsPack(t, filters).climateCount
    BY <2>1, <2>2, ScoreDrillDown
  <2>8. QED  BY <2>3, <2>4, <2>5, <2>6, <2>7 DEF t
<1>2. QED  BY <1>1, DashboardInvariant, PTL
-----------------------------------------------------------------------------
(* Sums: the community module's sum is a fold, defined by CHOOSE and by      *)
(* recursion over the subsets of a finite set.  Strict inclusion is well     *)
(* founded there, which gives induction over subsets; with it, the function  *)
(* of the recursion exists, and any two of them agree.                       *)

\* The element the fold takes next.
Pick(S) == CHOOSE x \in S : TRUE

\* g is the recursion's function for the sums of f over the subsets of S.
IsSum(g, f, S) ==
  g = [s \in SUBSET S |-> IF s = {} THEN 0 ELSE f[Pick(s)] + g[s \ {Pick(s)}]]

LEMMA SumDefined ==
  ASSUME NEW f, NEW S
  PROVE  SumFunctionOnSet(f, S) = (CHOOSE g : IsSum(g, f, S))[S]
BY DEF SumFunctionOnSet, FoldFunctionOnSet, MapThenFoldSet, IsSum, Pick

\* Induction over the subsets of a finite set: what holds of a subset whenever
\* it holds of all smaller ones holds of all.
LEMMA SubsetInduction ==
  ASSUME NEW S, IsFiniteSet(S), NEW G,
         \A s \in SUBSET S : (\A u \in SUBSET s : u # s => u \in G) => s \in G
  PROVE  \A s \in SUBSET S : s \in G
<1> DEFINE Rest == (SUBSET S) \ G
<1>1. ASSUME Rest # {} PROVE FALSE
  <2>1. IsWellFoundedOn(StrictSubsetOrdering(S), SUBSET S)
    BY FS_StrictSubsetOrderingWellFounded, FS_FiniteSubsetsOfFinite
  <2>2. Rest \subseteq SUBSET S
    OBVIOUS
  <2>3. PICK s \in Rest : \A u \in Rest : <<u, s>> \notin StrictSubsetOrdering(S)
    <3> HIDE DEF Rest
    <3> QED
      BY <1>1, <2>1, <2>2, WFMin
  <2>4. ASSUME NEW u \in SUBSET s, u # s PROVE u \in G
    BY <2>3, <2>4 DEF StrictSubsetOrdering
  <2>5. s \in SUBSET S /\ s \notin G
    BY <2>3
  <2>6. \A u \in SUBSET s : u # s => u \in G
    BY <2>4
  <2> QED
    BY <2>5, <2>6
<1> QED
  BY <1>1

LEMMA PickType == ASSUME NEW s, s # {} PROVE Pick(s) \in s
BY DEF Pick

\* The sums over the subsets of s, as the fold defines them.
SumTo(f, s) == CHOOSE g : IsSum(g, f, s)

\* Two such functions agree wherever both are defined.
LEMMA SumsAgree ==
  ASSUME NEW S, IsFiniteSet(S), NEW A \in SUBSET S, NEW B \in SUBSET S, NEW f,
         NEW g, NEW h, IsSum(g, f, A), IsSum(h, f, B)
  PROVE  \A u \in SUBSET (A \cap B) : g[u] = h[u]
<1> DEFINE G == {u \in SUBSET (A \cap B) : g[u] = h[u]}
<1>1. ASSUME NEW s \in SUBSET (A \cap B), \A u \in SUBSET s : u # s => u \in G
      PROVE  s \in G
  <2>1. /\ g[s] = IF s = {} THEN 0 ELSE f[Pick(s)] + g[s \ {Pick(s)}]
        /\ h[s] = IF s = {} THEN 0 ELSE f[Pick(s)] + h[s \ {Pick(s)}]
    <3>1. s \in SUBSET A /\ s \in SUBSET B
      OBVIOUS
    <3> QED
      BY <3>1 DEF IsSum
  <2>2. s # {} => s \ {Pick(s)} \in G
    BY <1>1, PickType
  <2> QED
    BY <2>1, <2>2
<1>2. IsFiniteSet(A \cap B)
  BY FS_Subset
<1>3. \A s \in SUBSET (A \cap B) : s \in G
  <2> HIDE DEF G
  <2> QED
    BY <1>1, <1>2, SubsetInduction
<1> QED
  BY <1>3

\* There is such a function.
LEMMA SumExists ==
  ASSUME NEW S, IsFiniteSet(S), NEW f
  PROVE  \A s \in SUBSET S : IsSum(SumTo(f, s), f, s)
<1> DEFINE G == {s \in SUBSET S : IsSum(SumTo(f, s), f, s)}
<1>1. ASSUME NEW s \in SUBSET S, \A u \in SUBSET s : u # s => u \in G
      PROVE  s \in G
  <2> DEFINE v(u) == SumTo(f, u)[u]
             h == [u \in SUBSET s |-> IF u = {} THEN 0 ELSE f[Pick(u)] + v(u \ {Pick(u)})]
  <2>1. ASSUME NEW w \in SUBSET s, w # s
        PROVE  v(w) = h[w]
    <3>1. v(w) = IF w = {} THEN 0 ELSE f[Pick(w)] + SumTo(f, w)[w \ {Pick(w)}]
      BY <1>1, <2>1 DEF IsSum
    <3>2. ASSUME w # {} PROVE SumTo(f, w)[w \ {Pick(w)}] = v(w \ {Pick(w)})
      <4> DEFINE x == w \ {Pick(w)}
      <4>1. x \subseteq w /\ x \subseteq s /\ x # s /\ w \in SUBSET S /\ x \in SUBSET S
        BY <2>1
      <4>2. IsSum(SumTo(f, w), f, w) /\ IsSum(SumTo(f, x), f, x)
        BY <1>1, <2>1, <4>1
      <4>3. \A u \in SUBSET (w \cap x) : SumTo(f, w)[u] = SumTo(f, x)[u]
        <5> HIDE DEF x
        <5> QED
          BY <4>1, <4>2, SumsAgree
      <4>4. x \in SUBSET (w \cap x)
        BY <4>1
      <4> QED
        BY <4>3, <4>4
    <3> QED
      BY <3>1, <3>2
  <2>2. ASSUME NEW u \in SUBSET s, u # {}
        PROVE  v(u \ {Pick(u)}) = h[u \ {Pick(u)}]
    <3>1. u \ {Pick(u)} \in SUBSET s /\ u \ {Pick(u)} # s
      BY <2>2, PickType
    <3> HIDE DEF v, h
    <3> QED
      BY <2>1, <3>1
  <2>3. h = [u \in SUBSET s |-> IF u = {} THEN 0 ELSE f[Pick(u)] + h[u \ {Pick(u)}]]
    <3>1. h = [u \in SUBSET s |-> IF u = {} THEN 0 ELSE f[Pick(u)] + v(u \ {Pick(u)})]
      OBVIOUS
    <3> HIDE DEF v, h
    <3> QED
      BY <2>2, <3>1
  <2>4. IsSum(SumTo(f, s), f, s)
    BY <2>3 DEF SumTo, IsSum
  <2> QED
    BY <2>4
<1>2. \A s \in SUBSET S : s \in G
  <2> HIDE DEF G
  <2> QED
    BY <1>1, SubsetInduction
<1> QED
  BY <1>2

\* The empty sum, and a sum with its first element apart.
LEMMA SumRecursion ==
  ASSUME NEW f, NEW S, IsFiniteSet(S)
  PROVE  /\ S = {} => SumFunctionOnSet(f, S) = 0
         /\ S # {} => SumFunctionOnSet(f, S) = f[Pick(S)] + SumFunctionOnSet(f, S \ {Pick(S)})
<1>1. \A s \in SUBSET S : SumFunctionOnSet(f, s) = SumTo(f, s)[s]
  BY SumDefined DEF SumTo
<1>2. \A s \in SUBSET S : IsSum(SumTo(f, s), f, s)
  BY SumExists
<1>3. S = {} => SumFunctionOnSet(f, S) = 0
  BY <1>1, <1>2 DEF IsSum
<1>4. ASSUME S # {}
      PROVE  SumFunctionOnSet(f, S) = f[Pick(S)] + SumFunctionOnSet(f, S \ {Pick(S)})
  <2> DEFINE x == S \ {Pick(S)}
  <2>1. SumTo(f, S)[S] = f[Pick(S)] + SumTo(f, S)[x]
    BY <1>2, <1>4 DEF IsSum
  <2>2. x \in SUBSET S /\ x \in SUBSET (S \cap x) /\ S \in SUBSET S
    OBVIOUS
  <2>3. SumTo(f, S)[x] = SumTo(f, x)[x]
    <3> HIDE DEF x
    <3>1. IsSum(SumTo(f, S), f, S) /\ IsSum(SumTo(f, x), f, x)
      BY <1>2, <2>2
    <3>2. \A u \in SUBSET (S \cap x) : SumTo(f, S)[u] = SumTo(f, x)[u]
      BY <2>2, <3>1, SumsAgree
    <3> QED
      BY <2>2, <3>2
  <2> QED
    BY <1>1, <2>1, <2>2, <2>3
<1> QED
  BY <1>3, <1>4

-----------------------------------------------------------------------------
(* Sums: what they are, in any order and group by group *)

\* The summands are integers.
Ints(f, S) == \A x \in S : f[x] \in Int

LEMMA SumIsInt ==
  ASSUME NEW S, IsFiniteSet(S), NEW f, Ints(f, S)
  PROVE  \A s \in SUBSET S : SumFunctionOnSet(f, s) \in Int
<1> DEFINE G == {s \in SUBSET S : SumFunctionOnSet(f, s) \in Int}
<1>1. ASSUME NEW s \in SUBSET S, \A u \in SUBSET s : u # s => u \in G
      PROVE  s \in G
  <2>1. IsFiniteSet(s)
    BY FS_Subset
  <2>2. CASE s = {}
    <3>1. SumFunctionOnSet(f, s) = 0
      BY <2>1, <2>2, SumRecursion
    <3> QED
      BY <3>1
  <2>3. CASE s # {}
    <3>1. SumFunctionOnSet(f, s) = f[Pick(s)] + SumFunctionOnSet(f, s \ {Pick(s)})
      BY <2>1, <2>3, SumRecursion
    <3>2. Pick(s) \in s /\ s \ {Pick(s)} \in G
      BY <1>1, <2>3, PickType
    <3> QED
      BY <3>1, <3>2 DEF Ints
  <2> QED
    BY <2>2, <2>3
<1>2. \A s \in SUBSET S : s \in G
  <2> HIDE DEF G
  <2> QED
    BY <1>1, SubsetInduction
<1> QED
  BY <1>2

\* Any element may be the one that is taken apart.
LEMMA SumApart ==
  ASSUME NEW S, IsFiniteSet(S), NEW f, Ints(f, S)
  PROVE  \A s \in SUBSET S : \A x \in s :
           SumFunctionOnSet(f, s) = f[x] + SumFunctionOnSet(f, s \ {x})
<1> DEFINE Sum(s) == SumFunctionOnSet(f, s)
           G == {s \in SUBSET S : \A x \in s : Sum(s) = f[x] + Sum(s \ {x})}
<1>1. ASSUME NEW s \in SUBSET S, \A u \in SUBSET s : u # s => u \in G
      PROVE  s \in G
  <2> SUFFICES ASSUME NEW x \in s PROVE Sum(s) = f[x] + Sum(s \ {x})
    OBVIOUS
  <2> DEFINE p == Pick(s)
  <2>1. p \in s /\ Sum(s) = f[p] + Sum(s \ {p})
    <3>1. IsFiniteSet(s) /\ s # {}
      BY FS_Subset
    <3> QED
      BY <3>1, SumRecursion, PickType
  <2>2. CASE x = p
    BY <2>1, <2>2
  <2>3. CASE x # p
    <3> DEFINE r == s \ {x, p}
    <3>1. /\ s \ {p} \in G /\ s \ {x} \in G
          /\ x \in s \ {p} /\ p \in s \ {x}
          /\ (s \ {p}) \ {x} = r /\ (s \ {x}) \ {p} = r
      BY <1>1, <2>1, <2>3
    <3>2. Sum(s \ {p}) = f[x] + Sum(r) /\ Sum(s \ {x}) = f[p] + Sum(r)
      BY <3>1
    <3>3. f[x] \in Int /\ f[p] \in Int /\ Sum(r) \in Int
      <4>1. r \in SUBSET S
        OBVIOUS
      <4> QED
        BY <2>1, <4>1, SumIsInt DEF Ints
    <3> HIDE DEF Sum, p, r
    <3> QED
      BY <2>1, <3>2, <3>3
  <2> QED
    BY <2>2, <2>3
<1>2. \A s \in SUBSET S : s \in G
  <2> HIDE DEF G
  <2> QED
    BY <1>1, SubsetInduction
<1> QED
  BY <1>2

\* A sum depends on the values at its elements only.
LEMMA SumSame ==
  ASSUME NEW S, IsFiniteSet(S), NEW f, NEW g, \A x \in S : f[x] = g[x]
  PROVE  SumFunctionOnSet(f, S) = SumFunctionOnSet(g, S)
<1> DEFINE G == {s \in SUBSET S : SumFunctionOnSet(f, s) = SumFunctionOnSet(g, s)}
<1>1. ASSUME NEW s \in SUBSET S, \A u \in SUBSET s : u # s => u \in G
      PROVE  s \in G
  <2>1. IsFiniteSet(s)
    BY FS_Subset
  <2>2. CASE s = {}
    BY <2>1, <2>2, SumRecursion
  <2>3. CASE s # {}
    <3>1. /\ SumFunctionOnSet(f, s) = f[Pick(s)] + SumFunctionOnSet(f, s \ {Pick(s)})
          /\ SumFunctionOnSet(g, s) = g[Pick(s)] + SumFunctionOnSet(g, s \ {Pick(s)})
      BY <2>1, <2>3, SumRecursion
    <3>2. Pick(s) \in s /\ s \ {Pick(s)} \in G
      BY <1>1, <2>3, PickType
    <3> QED
      BY <3>1, <3>2
  <2> QED
    BY <2>2, <2>3
<1>2. \A s \in SUBSET S : s \in G
  <2> HIDE DEF G
  <2> QED
    BY <1>1, SubsetInduction
<1>3. S \in G
  BY <1>2
<1> QED
  BY <1>3

\* The sum of ones is the number of elements.
LEMMA SumOfOnes ==
  ASSUME NEW S, IsFiniteSet(S), NEW f, \A x \in S : f[x] = 1
  PROVE  SumFunctionOnSet(f, S) = Cardinality(S)
<1> DEFINE G == {s \in SUBSET S : SumFunctionOnSet(f, s) = Cardinality(s)}
<1>1. ASSUME NEW s \in SUBSET S, \A u \in SUBSET s : u # s => u \in G
      PROVE  s \in G
  <2>1. IsFiniteSet(s)
    BY FS_Subset
  <2>2. CASE s = {}
    BY <2>1, <2>2, SumRecursion, FS_EmptySet
  <2>3. CASE s # {}
    <3>1. /\ SumFunctionOnSet(f, s) = f[Pick(s)] + SumFunctionOnSet(f, s \ {Pick(s)})
      BY <2>1, <2>3, SumRecursion
    <3>2. Pick(s) \in s /\ s \ {Pick(s)} \in G
      BY <1>1, <2>3, PickType
    <3>3. f[Pick(s)] = 1
      BY <3>2
    <3>4. Cardinality(s \ {Pick(s)}) = Cardinality(s) - 1 /\ Cardinality(s) \in Int
      BY <2>1, <3>2, FS_RemoveElement, FS_CardinalityType
    <3> QED
      BY <3>1, <3>2, <3>3, <3>4
  <2> QED
    BY <2>2, <2>3
<1>2. \A s \in SUBSET S : s \in G
  <2> HIDE DEF G
  <2> QED
    BY <1>1, SubsetInduction
<1>3. S \in G
  BY <1>2
<1> QED
  BY <1>3

LEMMA SumOfZeros ==
  ASSUME NEW S, IsFiniteSet(S)
  PROVE  SumFunctionOnSet([x \in S |-> 0], S) = 0
<1> DEFINE f == [x \in S |-> 0]
           G == {s \in SUBSET S : SumFunctionOnSet(f, s) = 0}
<1>1. ASSUME NEW s \in SUBSET S, \A u \in SUBSET s : u # s => u \in G
      PROVE  s \in G
  <2>1. IsFiniteSet(s)
    BY FS_Subset
  <2>2. CASE s = {}
    BY <2>1, <2>2, SumRecursion
  <2>3. CASE s # {}
    <3>1. SumFunctionOnSet(f, s) = f[Pick(s)] + SumFunctionOnSet(f, s \ {Pick(s)})
      BY <2>1, <2>3, SumRecursion
    <3>2. Pick(s) \in s /\ s \ {Pick(s)} \in G
      BY <1>1, <2>3, PickType
    <3>3. f[Pick(s)] = 0
      BY <3>2
    <3> QED
      BY <3>1, <3>2, <3>3
  <2> QED
    BY <2>2, <2>3
<1>2. \A s \in SUBSET S : s \in G
  <2> HIDE DEF G
  <2> QED
    BY <1>1, SubsetInduction
<1>3. S \in G
  BY <1>2
<1> QED
  BY <1>3

\* Summing group by group is summing all.
LEMMA SumByGroups ==
  ASSUME NEW S, IsFiniteSet(S), NEW f, Ints(f, S), NEW key, NEW K, IsFiniteSet(K),
         \A x \in S : key[x] \in K
  PROVE  SumFunctionOnSet([k \in K |-> SumFunctionOnSet(f, {x \in S : key[x] = k})], K) =
           SumFunctionOnSet(f, S)
<1> DEFINE Sum(s) == SumFunctionOnSet(f, s)
           group(s, k) == {x \in s : key[x] = k}
           sums(s) == [k \in K |-> Sum(group(s, k))]
           G == {s \in SUBSET S : SumFunctionOnSet(sums(s), K) = Sum(s)}
<1>0. ASSUME NEW s \in SUBSET S PROVE Ints(sums(s), K)
  <2>1. \A k \in K : group(s, k) \in SUBSET S
    OBVIOUS
  <2>2. \A k \in K : Sum(group(s, k)) \in Int
    BY <2>1, SumIsInt
  <2> HIDE DEF Sum, group
  <2> QED
    BY <2>2 DEF Ints
<1>1. ASSUME NEW s \in SUBSET S, \A u \in SUBSET s : u # s => u \in G
      PROVE  s \in G
  <2>1. IsFiniteSet(s)
    BY FS_Subset
  <2>2. CASE s = {}
    <3> DEFINE none == [k \in K |-> 0]
    <3>1. Sum(s) = 0
      BY <2>1, <2>2, SumRecursion
    <3>2. \A k \in K : group(s, k) = s
      BY <2>2
    <3>3. sums(s) = none
      <4> HIDE DEF group, Sum
      <4> QED
        BY <3>1, <3>2
    <3>4. SumFunctionOnSet(none, K) = 0
      BY SumOfZeros
    <3> QED
      BY <3>1, <3>3, <3>4
  <2>3. CASE s # {}
    <3> DEFINE p == Pick(s)
               r == s \ {p}
               q == key[p]
    <3>1. p \in s /\ r \in G /\ r \in SUBSET S /\ q \in K /\ p \in S
      BY <1>1, <2>3, PickType
    <3>2. Sum(s) = f[p] + Sum(r)
      BY <2>1, <2>3, SumRecursion
    <3>3. Sum(group(s, q)) = f[p] + Sum(group(r, q))
      <4>1. p \in group(s, q) /\ group(s, q) \ {p} = group(r, q) /\ group(s, q) \in SUBSET S
        BY <3>1
      <4> QED
        BY <4>1, SumApart
    <3>4. \A k \in K \ {q} : group(s, k) = group(r, k)
      OBVIOUS
    <3>5. /\ SumFunctionOnSet(sums(s), K) = sums(s)[q] + SumFunctionOnSet(sums(s), K \ {q})
          /\ SumFunctionOnSet(sums(r), K) = sums(r)[q] + SumFunctionOnSet(sums(r), K \ {q})
      <4>1. Ints(sums(s), K) /\ Ints(sums(r), K)
        BY <1>0, <3>1
      <4>2. K \in SUBSET K
        OBVIOUS
      <4> HIDE DEF sums, q
      <4> QED
        BY <3>1, <4>1, <4>2, SumApart
    <3>6. SumFunctionOnSet(sums(s), K \ {q}) = SumFunctionOnSet(sums(r), K \ {q})
      <4>1. \A k \in K \ {q} : sums(s)[k] = sums(r)[k]
        <5> HIDE DEF group, q, r, Sum
        <5> QED
          BY <3>4
      <4>2. IsFiniteSet(K \ {q})
        BY FS_Subset
      <4> HIDE DEF sums
      <4> QED
        BY <4>1, <4>2, SumSame
    <3>7. /\ sums(s)[q] = f[p] + sums(r)[q]
      <4> HIDE DEF group, Sum, p, q, r
      <4> QED
        BY <3>1, <3>3
    <3>8. /\ f[p] \in Int /\ sums(r)[q] \in Int
          /\ SumFunctionOnSet(sums(r), K \ {q}) \in Int
      <4>1. Ints(sums(r), K) /\ f[p] \in Int
        BY <1>0, <3>1 DEF Ints
      <4> HIDE DEF sums, p, q, r
      <4>2. SumFunctionOnSet(sums(r), K \ {q}) \in Int
        BY <4>1, SumIsInt
      <4> QED
        BY <3>1, <4>1, <4>2 DEF Ints
    <3>9. SumFunctionOnSet(sums(r), K) = Sum(r)
      BY <3>1
    <3> HIDE DEF sums, Sum, p, q, r
    <3>10. SumFunctionOnSet(sums(s), K) = Sum(s)
      BY <3>2, <3>5, <3>6, <3>7, <3>8, <3>9
    <3> QED
      BY <3>10
  <2> QED
    BY <2>2, <2>3
<1>2. \A s \in SUBSET S : s \in G
  <2> HIDE DEF G
  <2> QED
    BY <1>1, SubsetInduction
<1>3. S \in G
  BY <1>2
<1> QED
  BY <1>3

-----------------------------------------------------------------------------
(* Percentages: each is rounded, by half a hundredth at most *)

LEMMA Division ==
  ASSUME NEW a \in Int, NEW b \in Nat \ {0}
  PROVE  a \div b \in Int /\ b * (a \div b) <= a /\ a < b * (a \div b) + b
OBVIOUS

\* Half a unit of rounding at most.
LEMMA RoundedTo ==
  ASSUME NEW part \in Nat, NEW whole \in Nat \ {0}
  PROVE  /\ RoundedRatio(part, whole) \in Int
         /\ 2 * (whole * RoundedRatio(part, whole)) - 2 * part \in -whole..whole
<1> DEFINE r == RoundedRatio(part, whole)
<1>1. 2 * part + whole \in Int /\ 2 * whole \in Nat \ {0}
  OBVIOUS
<1>2. /\ r \in Int
      /\ (2 * whole) * r <= 2 * part + whole
      /\ 2 * part + whole < (2 * whole) * r + 2 * whole
  BY <1>1, Division DEF RoundedRatio
<1> HIDE DEF r
<1>3. (2 * whole) * r = 2 * (whole * r) /\ whole * r \in Int
  BY <1>2
<1>4. 2 * (whole * r) - 2 * part \in -whole..whole
  <2> DEFINE wr == whole * r
  <2>1. wr \in Int /\ 2 * wr <= 2 * part + whole /\ 2 * part + whole < 2 * wr + 2 * whole
    BY <1>2, <1>3
  <2> HIDE DEF wr
  <2>2. 2 * wr - 2 * part \in -whole..whole
    BY <2>1
  <2> QED
    BY <2>2 DEF wr
<1> QED
  BY <1>2, <1>4 DEF r

LEMMA Distributes == \A a, b, c \in Int : a * (b + c) = a * b + a * c
OBVIOUS

LEMMA Within ==
  ASSUME NEW total \in Nat \ {0}, NEW d \in Int, NEW n \in Nat,
         total * d \in -(total * n)..(total * n)
  PROVE  d \in -n..n
<1>1. total * d \in Int /\ total * n \in Int
  OBVIOUS
<1>2. ASSUME d > n PROVE FALSE
  <2>1. d >= n + 1
    BY <1>2
  <2>2. total * d >= total * (n + 1) /\ total * (n + 1) = total * n + total /\ total * n >= 0
    BY <2>1
  <2> DEFINE td == total * d
             tn == total * n
  <2>3. td >= tn + total /\ td <= tn /\ td \in Int /\ tn \in Int /\ tn >= 0
    BY <1>1, <2>2
  <2> HIDE DEF td, tn
  <2> QED
    BY <2>3
<1>3. ASSUME d < -n PROVE FALSE
  <2>1. -d >= n + 1 /\ -d \in Int
    BY <1>3
  <2>2. total * (-d) >= total * (n + 1) /\ total * (n + 1) = total * n + total /\ total * n >= 0
        /\ total * (-d) = -(total * d)
    BY <2>1
  <2> DEFINE td == total * d
             tn == total * n
  <2>3. -td >= tn + total /\ td >= -tn /\ td \in Int /\ tn \in Int /\ tn >= 0
    BY <1>1, <2>2
  <2> HIDE DEF td, tn
  <2> QED
    BY <2>3
<1> QED
  BY <1>2, <1>3

\* Rounded shares of a whole add up to the whole, but for the rounding.
LEMMA SharesAddUp ==
  ASSUME NEW K, IsFiniteSet(K), NEW counts, \A k \in K : counts[k] \in Nat,
         NEW total \in Nat \ {0}, SumFunctionOnSet(counts, K) = total,
         NEW shares, \A k \in K : shares[k] = Percentage(counts[k], total)
  PROVE  2 * (SumFunctionOnSet(shares, K) - 10000) \in -Cardinality(K)..Cardinality(K)
<1> DEFINE Sum(f, s) == SumFunctionOnSet(f, s)
           error(s) == 2 * (total * Sum(shares, s)) - 20000 * Sum(counts, s)
           bound(s) == total * Cardinality(s)
           G == {s \in SUBSET K : error(s) \in -bound(s)..bound(s)}
<1>1. \A k \in K : /\ shares[k] \in Int
                   /\ 2 * (total * shares[k]) - 20000 * counts[k] \in -total..total
  <2> SUFFICES ASSUME NEW k \in K
               PROVE  /\ shares[k] \in Int
                      /\ 2 * (total * shares[k]) - 20000 * counts[k] \in -total..total
    OBVIOUS
  <2>1. shares[k] = RoundedRatio(10000 * counts[k], total) /\ 10000 * counts[k] \in Nat
    BY DEF Percentage
  <2>2. /\ shares[k] \in Int
        /\ 2 * (total * shares[k]) - 2 * (10000 * counts[k]) \in -total..total
    <3> DEFINE part == 10000 * counts[k]
    <3>1. part \in Nat /\ shares[k] = RoundedRatio(part, total)
      BY <2>1
    <3> HIDE DEF part
    <3>2. /\ shares[k] \in Int
          /\ 2 * (total * shares[k]) - 2 * part \in -total..total
      BY <3>1, RoundedTo
    <3> QED
      BY <3>2 DEF part
  <2> QED
    BY <2>2
<1>2. Ints(shares, K) /\ Ints(counts, K)
  BY <1>1 DEF Ints
<1>3. ASSUME NEW s \in SUBSET K
      PROVE  Sum(shares, s) \in Int /\ Sum(counts, s) \in Int /\ Cardinality(s) \in Nat
  BY <1>2, SumIsInt, FS_Subset, FS_CardinalityType
<1>4. ASSUME NEW s \in SUBSET K, \A u \in SUBSET s : u # s => u \in G
      PROVE  s \in G
  <2>1. IsFiniteSet(s)
    BY FS_Subset
  <2>2. CASE s = {}
    <3>1. Sum(shares, s) = 0 /\ Sum(counts, s) = 0 /\ Cardinality(s) = 0
      BY <2>1, <2>2, SumRecursion, FS_EmptySet
    <3> HIDE DEF Sum
    <3>2. error(s) = 0 /\ bound(s) = 0
      BY <3>1
    <3> HIDE DEF error, bound
    <3>3. error(s) \in -bound(s)..bound(s)
      BY <3>2
    <3> QED
      BY <3>3
  <2>3. CASE s # {}
    <3> DEFINE p == Pick(s)
               r == s \ {p}
    <3>1. p \in s /\ p \in K /\ r \in G /\ r \in SUBSET K
      BY <1>4, <2>3, PickType
    <3>2. Sum(shares, s) = shares[p] + Sum(shares, r) /\ Sum(counts, s) = counts[p] + Sum(counts, r)
      BY <2>1, <2>3, SumRecursion
    <3>3. Cardinality(s) = Cardinality(r) + 1 /\ Cardinality(r) \in Nat
      <4>1. Cardinality(s) \in Nat /\ Cardinality(r) \in Nat
        BY <1>3, <3>1
      <4>2. Cardinality(r) = Cardinality(s) - 1
        <5>1. p \in s
          BY <3>1
        <5> QED
          BY <2>1, <5>1, FS_RemoveElement
      <4> QED
        BY <4>1, <4>2
    <3>4. Sum(shares, r) \in Int /\ Sum(counts, r) \in Int
      BY <1>3, <3>1
    <3>5. shares[p] \in Int /\ counts[p] \in Nat
          /\ 2 * (total * shares[p]) - 20000 * counts[p] \in -total..total
      BY <1>1, <3>1
    <3>6. error(r) \in -bound(r)..bound(r)
      BY <3>1
    <3> HIDE DEF Sum, p, r
    <3>7. /\ total * Sum(shares, s) = total * shares[p] + total * Sum(shares, r)
          /\ total * Cardinality(s) = total * Cardinality(r) + total
      <4>1. total * (shares[p] + Sum(shares, r)) = total * shares[p] + total * Sum(shares, r)
        BY <3>4, <3>5, Distributes
      <4>2. total * (Cardinality(r) + 1) = total * Cardinality(r) + total * 1
        BY <3>3, Distributes
      <4> QED
        BY <3>2, <3>3, <4>1, <4>2
    <3> DEFINE a == total * shares[p]
               b == total * Sum(shares, r)
               c == total * Cardinality(r)
    <3>8. a \in Int /\ b \in Int /\ c \in Int
      BY <3>3, <3>4, <3>5
    <3>9. /\ error(s) = 2 * (a + b) - 20000 * (counts[p] + Sum(counts, r))
          /\ bound(s) = c + total
          /\ 2 * b - 20000 * Sum(counts, r) \in -c..c
          /\ 2 * a - 20000 * counts[p] \in -total..total
      BY <3>2, <3>5, <3>6, <3>7
    <3> HIDE DEF a, b, c, error, bound
    <3>10. error(s) \in -bound(s)..bound(s)
      BY <3>4, <3>5, <3>8, <3>9
    <3> QED
      BY <3>10
  <2> QED
    BY <2>2, <2>3
<1>5. \A s \in SUBSET K : s \in G
  <2> HIDE DEF G
  <2> QED
    BY <1>4, SubsetInduction
<1>6. error(K) \in -bound(K)..bound(K)
  BY <1>5
<1>7. Sum(shares, K) \in Int /\ Cardinality(K) \in Nat
  BY <1>3
<1>8. error(K) = total * (2 * (Sum(shares, K) - 10000))
  <2> DEFINE n == Sum(shares, K)
  <2> HIDE DEF n
  <2>1. n \in Int
    BY <1>7 DEF n
  <2>2. total * (n - 10000) = total * n - 10000 * total
    BY <2>1
  <2>3. 2 * (total * n) - 20000 * total = 2 * (total * (n - 10000))
    <3>1. total * n \in Int
      BY <2>1
    <3> QED
      BY <2>2, <3>1
  <2>4. 2 * (total * (n - 10000)) = total * (2 * (n - 10000))
    BY <2>1
  <2> QED
    BY <2>3, <2>4 DEF n
<1> DEFINE d == 2 * (Sum(shares, K) - 10000)
<1>9. d \in Int /\ total * d \in -(total * Cardinality(K))..(total * Cardinality(K))
  BY <1>6, <1>7, <1>8
<1> HIDE DEF d
<1>10. d \in -Cardinality(K)..Cardinality(K)
  BY <1>7, <1>9, Within
<1> QED
  BY <1>10 DEF d

-----------------------------------------------------------------------------
(* Groups *)

\* Natural numbers add up to at least each of them.
LEMMA SumIsNat ==
  ASSUME NEW S, IsFiniteSet(S), NEW f, \A x \in S : f[x] \in Nat
  PROVE  /\ SumFunctionOnSet(f, S) \in Nat
         /\ \A x \in S : SumFunctionOnSet(f, S) >= f[x]
<1> DEFINE Sum(s) == SumFunctionOnSet(f, s)
           G == {s \in SUBSET S : Sum(s) \in Nat}
<1>1. ASSUME NEW s \in SUBSET S, \A u \in SUBSET s : u # s => u \in G
      PROVE  s \in G
  <2>1. IsFiniteSet(s)
    BY FS_Subset
  <2>2. CASE s = {}
    <3>1. Sum(s) = 0
      BY <2>1, <2>2, SumRecursion
    <3> HIDE DEF Sum
    <3>2. Sum(s) \in Nat
      BY <3>1
    <3> QED
      BY <3>2
  <2>3. CASE s # {}
    <3>1. Sum(s) = f[Pick(s)] + Sum(s \ {Pick(s)})
      BY <2>1, <2>3, SumRecursion
    <3>2. Pick(s) \in s /\ s \ {Pick(s)} \in G
      BY <1>1, <2>3, PickType
    <3>3. f[Pick(s)] \in Nat /\ Sum(s \ {Pick(s)}) \in Nat
      BY <3>2
    <3> HIDE DEF Sum
    <3>4. Sum(s) \in Nat
      BY <3>1, <3>3
    <3> QED
      BY <3>4
  <2> QED
    BY <2>2, <2>3
<1>2. \A s \in SUBSET S : s \in G
  <2> HIDE DEF G
  <2> QED
    BY <1>1, SubsetInduction
<1>3. ASSUME NEW x \in S PROVE Sum(S) >= f[x]
  <2>1. Ints(f, S) /\ S \in SUBSET S
    BY DEF Ints
  <2>2. Sum(S) = f[x] + Sum(S \ {x})
    BY <2>1, SumApart
  <2>3. Sum(S \ {x}) \in Nat /\ f[x] \in Nat
    BY <1>2
  <2> HIDE DEF Sum
  <2> QED
    BY <2>2, <2>3
<1> QED
  BY <1>2, <1>3

\* The values of a function on a finite set are finitely many.
LEMMA ImageFinite ==
  ASSUME NEW key, IsFiniteSet(DOMAIN key)
  PROVE  IsFiniteSet({key[x] : x \in DOMAIN key})
<1> DEFINE f == [x \in DOMAIN key |-> key[x]]
           T == {key[x] : x \in DOMAIN key}
<1>1. f \in Surjection(DOMAIN key, T)
  BY DEF Surjection
<1> HIDE DEF f, T
<1>2. IsFiniteSet(T)
  BY <1>1, FS_Surjection
<1> QED
  BY <1>2 DEF T

\* Rows in groups: finitely many groups, of at least one row each.
LEMMA GroupsFinite ==
  ASSUME NEW key, IsFiniteSet(DOMAIN key)
  PROVE  /\ IsFiniteSet(DOMAIN GroupBy(key))
         /\ \A k \in DOMAIN GroupBy(key) :
              /\ GroupBy(key)[k] \in SUBSET (DOMAIN key)
              /\ GroupBy(key)[k] # {}
              /\ IsFiniteSet(GroupBy(key)[k])
              /\ Cardinality(GroupBy(key)[k]) \in Nat \ {0}
<1>1. IsFiniteSet(DOMAIN GroupBy(key))
  BY GroupByDomain, ImageFinite
<1>2. ASSUME NEW k \in DOMAIN GroupBy(key)
      PROVE  /\ GroupBy(key)[k] \in SUBSET (DOMAIN key)
             /\ GroupBy(key)[k] # {}
             /\ IsFiniteSet(GroupBy(key)[k])
             /\ Cardinality(GroupBy(key)[k]) \in Nat \ {0}
  <2>1. GroupBy(key)[k] \in SUBSET (DOMAIN key) /\ GroupBy(key)[k] # {}
    BY GroupByMember
  <2>2. IsFiniteSet(GroupBy(key)[k])
    BY <2>1, FS_Subset
  <2>3. Cardinality(GroupBy(key)[k]) \in Nat /\ Cardinality(GroupBy(key)[k]) # 0
    BY <2>1, <2>2, FS_EmptySet, FS_CardinalityType
  <2> QED
    BY <2>1, <2>2, <2>3
<1> QED
  BY <1>1, <1>2

\* The sums of the groups add up to the sum of the rows.
LEMMA GroupSums ==
  ASSUME NEW key, IsFiniteSet(DOMAIN key), NEW f, Ints(f, DOMAIN key), NEW sums,
         \A k \in DOMAIN GroupBy(key) : sums[k] = SumFunctionOnSet(f, GroupBy(key)[k])
  PROVE  SumFunctionOnSet(sums, DOMAIN GroupBy(key)) = SumFunctionOnSet(f, DOMAIN key)
<1> DEFINE S == DOMAIN key
           K == DOMAIN GroupBy(key)
           parts == [k \in K |-> SumFunctionOnSet(f, {x \in S : key[x] = k})]
<1>1. IsFiniteSet(K)
  BY GroupsFinite
<1>2. \A x \in S : key[x] \in K
  BY GroupByDomain
<1>3. \A k \in K : GroupBy(key)[k] = {x \in S : key[x] = k}
  BY GroupByMember
<1> HIDE DEF K
<1>4. SumFunctionOnSet(parts, K) = SumFunctionOnSet(f, S)
  BY <1>1, <1>2, SumByGroups
<1>5. \A k \in K : sums[k] = parts[k]
  BY <1>3 DEF K
<1> HIDE DEF parts
<1>6. SumFunctionOnSet(sums, K) = SumFunctionOnSet(parts, K)
  BY <1>1, <1>5, SumSame
<1> QED
  BY <1>4, <1>6 DEF K

\* The sizes of the groups add up to the number of rows.
LEMMA GroupSizes ==
  ASSUME NEW key, IsFiniteSet(DOMAIN key), NEW counts,
         \A k \in DOMAIN GroupBy(key) : counts[k] = Cardinality(GroupBy(key)[k])
  PROVE  SumFunctionOnSet(counts, DOMAIN GroupBy(key)) = Cardinality(DOMAIN key)
<1> DEFINE ones == [x \in DOMAIN key |-> 1]
<1>0. \A x \in DOMAIN key : ones[x] = 1
  OBVIOUS
<1> HIDE DEF ones
<1>1. Ints(ones, DOMAIN key)
  BY <1>0 DEF Ints
<1>2. SumFunctionOnSet(ones, DOMAIN key) = Cardinality(DOMAIN key)
  BY <1>0, SumOfOnes
<1>3. ASSUME NEW k \in DOMAIN GroupBy(key)
      PROVE  counts[k] = SumFunctionOnSet(ones, GroupBy(key)[k])
  <2>1. IsFiniteSet(GroupBy(key)[k]) /\ GroupBy(key)[k] \in SUBSET (DOMAIN key)
    BY GroupsFinite
  <2>2. \A x \in GroupBy(key)[k] : ones[x] = 1
    BY <1>0, <2>1
  <2>3. SumFunctionOnSet(ones, GroupBy(key)[k]) = Cardinality(GroupBy(key)[k])
    BY <2>1, <2>2, SumOfOnes
  <2> QED
    BY <2>3
<1> QED
  BY <1>1, <1>2, <1>3, GroupSums

-----------------------------------------------------------------------------
(* What adds up in an answer *)

\* The area of each farm.
Area(t) == [x \in DOMAIN t.farms |-> t.farms[x].area]

\* The selected farms are some of the table's, which are finitely many.
LEMMA SelectedFinite ==
  ASSUME NEW t, IsTables(t), NEW filters
  PROVE  Selected(t, filters) \in SUBSET (DOMAIN t.farms) /\ IsFiniteSet(Selected(t, filters))
<1>1. Selected(t, filters) \in SUBSET (DOMAIN t.farms) /\ IsFiniteSet(DOMAIN t.farms)
  BY DEF Selected, IsTables
<1> QED
  BY <1>1, FS_Subset

\* The land of some farms is a sum over them, and is not nothing.
LEMMA HectaresOf ==
  ASSUME NEW t, IsTables(t), NEW S \in SUBSET (DOMAIN t.farms)
  PROVE  /\ IsFiniteSet(S) /\ Ints(Area(t), S)
         /\ Hectares(t, S) = SumFunctionOnSet(Area(t), S)
         /\ Hectares(t, S) \in Nat
         /\ S # {} => Hectares(t, S) \in Nat \ {0}
<1> DEFINE area == [x \in S |-> t.farms[x].area]
<1>1. IsFiniteSet(S)
  <2>1. IsFiniteSet(DOMAIN t.farms)
    BY DEF IsTables
  <2> QED
    BY <2>1, FS_Subset
<1>2. \A x \in DOMAIN t.farms : t.farms[x].area \in Nat \ {0}
  BY DEF IsTables
<1>3. /\ DOMAIN area = S
      /\ \A x \in S : area[x] = t.farms[x].area /\ Area(t)[x] = t.farms[x].area
  BY DEF Area
<1>4. Hectares(t, S) = SumFunctionOnSet(area, S)
  BY DEF Hectares, SumFunction
<1> HIDE DEF area
<1>5. SumFunctionOnSet(area, S) = SumFunctionOnSet(Area(t), S)
  BY <1>1, <1>3, SumSame
<1>6. \A x \in S : Area(t)[x] \in Nat \ {0}
  BY <1>2, <1>3
<1>7. Ints(Area(t), S)
  BY <1>6 DEF Ints
<1>8. /\ SumFunctionOnSet(Area(t), S) \in Nat
      /\ \A x \in S : SumFunctionOnSet(Area(t), S) >= Area(t)[x]
  BY <1>1, <1>6, SumIsNat
<1>9. S # {} => SumFunctionOnSet(Area(t), S) \in Nat \ {0}
  BY <1>6, <1>8
<1> QED
  BY <1>1, <1>4, <1>5, <1>7, <1>8, <1>9

\* The sum of a column is the sum of its values.
LEMMA SumOfColumn ==
  ASSUME NEW rows, NEW field, NEW values,
         \A k \in DOMAIN rows : rows[k][field] = values[k],
         IsFiniteSet(DOMAIN rows)
  PROVE  SumFunction(Column(rows, field)) = SumFunctionOnSet(values, DOMAIN rows)
<1>1. /\ DOMAIN Column(rows, field) = DOMAIN rows
      /\ \A k \in DOMAIN rows : Column(rows, field)[k] = values[k]
  BY DEF Column
<1>2. SumFunction(Column(rows, field)) = SumFunctionOnSet(Column(rows, field), DOMAIN rows)
  BY <1>1 DEF SumFunction
<1> QED
  BY <1>1, <1>2, SumSame

\* Farms in groups, with their number and their land.
LEMMA CountAndAreaAddUp ==
  ASSUME NEW t, IsTables(t), NEW key, DOMAIN key \in SUBSET (DOMAIN t.farms), NEW rows,
         DOMAIN rows = DOMAIN GroupBy(key),
         \A k \in DOMAIN rows : /\ rows[k].count = Cardinality(GroupBy(key)[k])
                                /\ rows[k].hectares = Hectares(t, GroupBy(key)[k])
  PROVE  /\ SumFunction(Column(rows, "count")) = Cardinality(DOMAIN key)
         /\ SumFunction(Column(rows, "hectares")) = Hectares(t, DOMAIN key)
<1> DEFINE counts == [k \in DOMAIN rows |-> rows[k].count]
           areas == [k \in DOMAIN rows |-> rows[k].hectares]
<1>1. /\ \A k \in DOMAIN rows : counts[k] = rows[k]["count"]
      /\ \A k \in DOMAIN rows : areas[k] = rows[k]["hectares"]
  OBVIOUS
<1>2. IsFiniteSet(DOMAIN key)
  BY HectaresOf
<1>3. IsFiniteSet(DOMAIN rows)
  BY <1>2, GroupsFinite
<1>4. \A k \in DOMAIN GroupBy(key) : counts[k] = Cardinality(GroupBy(key)[k])
  OBVIOUS
<1>5. \A k \in DOMAIN GroupBy(key) : areas[k] = SumFunctionOnSet(Area(t), GroupBy(key)[k])
  <2> SUFFICES ASSUME NEW k \in DOMAIN GroupBy(key)
               PROVE  areas[k] = SumFunctionOnSet(Area(t), GroupBy(key)[k])
    OBVIOUS
  <2>1. areas[k] = Hectares(t, GroupBy(key)[k])
    OBVIOUS
  <2>2. GroupBy(key)[k] \in SUBSET (DOMAIN key)
    BY <1>2, GroupsFinite
  <2>3. GroupBy(key)[k] \in SUBSET (DOMAIN t.farms)
    BY <2>2
  <2>4. Hectares(t, GroupBy(key)[k]) = SumFunctionOnSet(Area(t), GroupBy(key)[k])
    BY <2>3, HectaresOf
  <2> QED
    BY <2>1, <2>4
<1> HIDE DEF counts, areas
<1>6. SumFunction(Column(rows, "count")) = Cardinality(DOMAIN key)
  <2>1. SumFunction(Column(rows, "count")) = SumFunctionOnSet(counts, DOMAIN rows)
    BY <1>1, <1>3, SumOfColumn
  <2>2. SumFunctionOnSet(counts, DOMAIN GroupBy(key)) = Cardinality(DOMAIN key)
    BY <1>2, <1>4, GroupSizes
  <2> QED
    BY <2>1, <2>2
<1>7. SumFunction(Column(rows, "hectares")) = Hectares(t, DOMAIN key)
  <2>1. SumFunction(Column(rows, "hectares")) = SumFunctionOnSet(areas, DOMAIN rows)
    BY <1>1, <1>3, SumOfColumn
  <2>2. Ints(Area(t), DOMAIN key) /\ Hectares(t, DOMAIN key) = SumFunctionOnSet(Area(t), DOMAIN key)
    BY HectaresOf
  <2>3. SumFunctionOnSet(areas, DOMAIN GroupBy(key)) = SumFunctionOnSet(Area(t), DOMAIN key)
    BY <1>2, <1>5, <2>2, GroupSums
  <2> QED
    BY <2>1, <2>2, <2>3
<1> QED
  BY <1>6, <1>7

\* Rows with their share of a total that is the sum of what they are shares of.
LEMMA SharesNear ==
  ASSUME NEW rows, IsFiniteSet(DOMAIN rows), NEW values, NEW total,
         \A k \in DOMAIN rows : values[k] \in Nat,
         \A k \in DOMAIN rows : rows[k].percentage = Percentage(values[k], total),
         SumFunctionOnSet(values, DOMAIN rows) = total,
         DOMAIN rows # {} => total \in Nat \ {0}
  PROVE  Near(Column(rows, "percentage"))
<1> DEFINE shares == [k \in DOMAIN rows |-> rows[k].percentage]
           percentages == Column(rows, "percentage")
<1>1. \A k \in DOMAIN rows : /\ shares[k] = rows[k]["percentage"]
                             /\ shares[k] = Percentage(values[k], total)
  OBVIOUS
<1>2. DOMAIN percentages = DOMAIN rows
  BY DEF Column
<1> HIDE DEF shares
<1>3. SumFunction(percentages) = SumFunctionOnSet(shares, DOMAIN rows)
  BY <1>1, SumOfColumn
<1>4. ASSUME DOMAIN rows # {}
      PROVE  2 * (SumFunctionOnSet(shares, DOMAIN rows) - 10000)
               \in -Cardinality(DOMAIN rows)..Cardinality(DOMAIN rows)
  BY <1>1, <1>4, SharesAddUp
<1> HIDE DEF percentages
<1>5. Near(percentages)
  BY <1>2, <1>3, <1>4 DEF Near
<1> QED
  BY <1>5 DEF percentages

\* States of an answer
LEMMA StatesAddUp ==
  ASSUME NEW t, IsTables(t), NEW filters, NEW farms, farms = FarmsPack(t, filters),
         NEW states,
         states = [s \in DOMAIN farms.byState |->
                     [count |-> farms.byState[s].count,
                      hectares |-> farms.byState[s].hectares,
                      percentage |-> Percentage(farms.byState[s].hectares, farms.totalHectares)]]
  PROVE  /\ SumFunction(Column(states, "count")) = farms.totalFarms
         /\ SumFunction(Column(states, "hectares")) = farms.totalHectares
         /\ Near(Column(states, "percentage"))
<1> DEFINE f == Selected(t, filters)
           key == [x \in f |-> t.farms[x].state]
           byState == farms.byState
           total == farms.totalHectares
           rows == states
           values == [k \in DOMAIN rows |-> rows[k].hectares]
<1>1. /\ byState = CountAndArea(t, GroupBy(key))
      /\ farms.totalFarms = Cardinality(f)
      /\ total = Hectares(t, f)
  BY DEF FarmsPack
<1>2. DOMAIN key = f /\ f \in SUBSET (DOMAIN t.farms) /\ IsFiniteSet(f)
  BY SelectedFinite
<1>3. /\ DOMAIN rows = DOMAIN byState
      /\ \A k \in DOMAIN rows :
           /\ rows[k].count = byState[k].count
           /\ rows[k].hectares = byState[k].hectares
           /\ rows[k].percentage = Percentage(byState[k].hectares, total)
  OBVIOUS
<1> HIDE DEF key, f, byState, total, rows
<1>4. /\ DOMAIN byState = DOMAIN GroupBy(key)
      /\ \A k \in DOMAIN byState : /\ byState[k].count = Cardinality(GroupBy(key)[k])
                                   /\ byState[k].hectares = Hectares(t, GroupBy(key)[k])
  BY <1>1 DEF CountAndArea
<1>5. /\ DOMAIN rows = DOMAIN GroupBy(key)
      /\ \A k \in DOMAIN rows : /\ rows[k].count = Cardinality(GroupBy(key)[k])
                                /\ rows[k].hectares = Hectares(t, GroupBy(key)[k])
                                /\ rows[k].percentage = Percentage(rows[k].hectares, total)
  BY <1>3, <1>4
<1>6. /\ SumFunction(Column(rows, "count")) = Cardinality(f)
      /\ SumFunction(Column(rows, "hectares")) = Hectares(t, f)
  <2>1. DOMAIN key \in SUBSET (DOMAIN t.farms)
    BY <1>2
  <2>2. /\ SumFunction(Column(rows, "count")) = Cardinality(DOMAIN key)
        /\ SumFunction(Column(rows, "hectares")) = Hectares(t, DOMAIN key)
    BY <1>5, <2>1, CountAndAreaAddUp
  <2> QED
    BY <1>2, <2>2
<1>7. IsFiniteSet(DOMAIN rows)
  BY <1>2, <1>5, GroupsFinite
<1>8. /\ \A k \in DOMAIN rows : values[k] = rows[k]["hectares"]
      /\ \A k \in DOMAIN rows : values[k] = Hectares(t, GroupBy(key)[k])
      /\ \A k \in DOMAIN rows : rows[k].percentage = Percentage(values[k], total)
  BY <1>5
<1> HIDE DEF values
<1>9. SumFunctionOnSet(values, DOMAIN rows) = total
  BY <1>1, <1>6, <1>7, <1>8, SumOfColumn
<1>10. \A k \in DOMAIN rows : values[k] \in Nat
  <2> SUFFICES ASSUME NEW k \in DOMAIN rows PROVE values[k] \in Nat
    OBVIOUS
  <2>1. GroupBy(key)[k] \in SUBSET (DOMAIN t.farms)
    BY <1>2, <1>5, GroupsFinite
  <2>2. Hectares(t, GroupBy(key)[k]) \in Nat
    BY <2>1, HectaresOf
  <2> QED
    BY <1>8, <2>2
<1>11. DOMAIN rows # {} => total \in Nat \ {0}
  <2>1. DOMAIN rows # {} => f # {}
    BY <1>2, <1>5, GroupByDomain
  <2>2. f # {} => Hectares(t, f) \in Nat \ {0}
    BY <1>2, HectaresOf
  <2> QED
    BY <1>1, <2>1, <2>2
<1>12. Near(Column(rows, "percentage"))
  <2>1. \A k \in DOMAIN rows : rows[k].percentage = Percentage(values[k], total)
    BY <1>8
  <2> QED
    BY <1>7, <1>9, <1>10, <1>11, <2>1, SharesNear
<1> QED
  BY <1>1, <1>6, <1>12 DEF rows, total

\* Rows counted in groups, and the share of each group.
LEMMA CountsAddUp ==
  ASSUME NEW key, IsFiniteSet(DOMAIN key), NEW counts,
         counts = [k \in DOMAIN GroupBy(key) |-> Cardinality(GroupBy(key)[k])]
  PROVE  /\ SumFunction(counts) = Cardinality(DOMAIN key)
         /\ IsFiniteSet(DOMAIN counts)
         /\ \A k \in DOMAIN counts : counts[k] \in Nat \ {0}
         /\ DOMAIN counts # {} => SumFunction(counts) \in Nat \ {0}
<1>1. /\ DOMAIN counts = DOMAIN GroupBy(key)
      /\ \A k \in DOMAIN GroupBy(key) : counts[k] = Cardinality(GroupBy(key)[k])
  OBVIOUS
<1>2. /\ IsFiniteSet(DOMAIN counts)
      /\ \A k \in DOMAIN counts : counts[k] \in Nat \ {0}
  BY <1>1, GroupsFinite
<1>3. SumFunctionOnSet(counts, DOMAIN GroupBy(key)) = Cardinality(DOMAIN key)
  BY <1>1, GroupSizes
<1>4. SumFunction(counts) = Cardinality(DOMAIN key)
  BY <1>1, <1>3 DEF SumFunction
<1>5. DOMAIN counts # {} => DOMAIN key # {}
  BY <1>1, GroupByDomain
<1>6. DOMAIN key # {} => Cardinality(DOMAIN key) \in Nat \ {0}
  BY FS_EmptySet, FS_CardinalityType
<1> QED
  BY <1>2, <1>4, <1>5, <1>6

\* byCrop and byEsgStatus
LEMMA SharesOfCounts ==
  ASSUME NEW counts, IsFiniteSet(DOMAIN counts), \A k \in DOMAIN counts : counts[k] \in Nat,
         DOMAIN counts # {} => SumFunction(counts) \in Nat \ {0}
  PROVE  Near(Column(Shares(counts), "percentage"))
<1> DEFINE rows == Shares(counts)
           total == SumFunction(counts)
<1>1. /\ DOMAIN rows = DOMAIN counts
      /\ \A k \in DOMAIN rows : rows[k].percentage = Percentage(counts[k], total)
  BY DEF Shares
<1>2. SumFunctionOnSet(counts, DOMAIN counts) = total
  BY DEF SumFunction
<1> HIDE DEF rows, total
<1>3. Near(Column(rows, "percentage"))
  BY <1>1, <1>2, SharesNear DEF total
<1> QED
  BY <1>3 DEF rows

\* CAR statuses, the farms without one included.
LEMMA CarStatusesAddUp ==
  ASSUME NEW t, IsTables(t), NEW filters, NEW farms, farms = FarmsPack(t, filters),
         NEW rows,
         rows = [c \in DOMAIN farms.byCar |->
                   [count |-> farms.byCar[c],
                    percentage |-> Percentage(farms.byCar[c], farms.totalFarms)]]
  PROVE  /\ SumFunction(Column(rows, "count")) = farms.totalFarms
         /\ Near(Column(rows, "percentage"))
<1> DEFINE f == Selected(t, filters)
           key == [x \in f |-> t.farms[x].carStatus]
           counts == farms.byCar
<1>1. /\ counts = [k \in DOMAIN GroupBy(key) |-> Cardinality(GroupBy(key)[k])]
      /\ farms.totalFarms = Cardinality(f)
  BY DEF FarmsPack, CarGroups
<1>2. DOMAIN key = f /\ IsFiniteSet(f)
  BY SelectedFinite
<1>3. /\ DOMAIN rows = DOMAIN counts
      /\ \A k \in DOMAIN rows : /\ rows[k]["count"] = counts[k]
                                /\ rows[k].percentage = Percentage(counts[k], farms.totalFarms)
  OBVIOUS
<1> HIDE DEF key, f, counts
<1>4. /\ SumFunction(counts) = Cardinality(f)
      /\ IsFiniteSet(DOMAIN counts)
      /\ \A k \in DOMAIN counts : counts[k] \in Nat \ {0}
      /\ DOMAIN counts # {} => SumFunction(counts) \in Nat \ {0}
  BY <1>1, <1>2, CountsAddUp
<1>5. SumFunctionOnSet(counts, DOMAIN rows) = farms.totalFarms
  BY <1>1, <1>3, <1>4 DEF SumFunction
<1>6. SumFunction(Column(rows, "count")) = farms.totalFarms
  BY <1>3, <1>4, <1>5, SumOfColumn
<1>7. Near(Column(rows, "percentage"))
  <2>1. IsFiniteSet(DOMAIN rows) /\ \A k \in DOMAIN rows : counts[k] \in Nat
    BY <1>3, <1>4
  <2>2. DOMAIN rows # {} => farms.totalFarms \in Nat \ {0}
    BY <1>1, <1>3, <1>4
  <2>3. \A k \in DOMAIN rows : rows[k].percentage = Percentage(counts[k], farms.totalFarms)
    BY <1>3
  <2> QED
    BY <1>5, <2>1, <2>2, <2>3, SharesNear
<1> QED
  BY <1>6, <1>7

\* Each farm was made in one month.
LEMMA MonthsAddUp ==
  ASSUME NEW t, IsTables(t), NEW filters, NEW farms, farms = FarmsPack(t, filters)
  PROVE  /\ SumFunction(Column(farms.farmsByMonth, "count")) = farms.totalFarms
         /\ SumFunction(Column(farms.farmsByMonth, "hectares")) = farms.totalHectares
<1> DEFINE f == Selected(t, filters)
           key == [x \in f |-> t.farms[x].month]
           rows == farms.farmsByMonth
<1>1. /\ rows = CountAndArea(t, GroupBy(key))
      /\ farms.totalFarms = Cardinality(f)
      /\ farms.totalHectares = Hectares(t, f)
  BY DEF FarmsPack
<1>2. DOMAIN key = f /\ f \in SUBSET (DOMAIN t.farms)
  BY SelectedFinite
<1> HIDE DEF key, f, rows
<1>3. /\ DOMAIN rows = DOMAIN GroupBy(key)
      /\ \A k \in DOMAIN rows : /\ rows[k].count = Cardinality(GroupBy(key)[k])
                                /\ rows[k].hectares = Hectares(t, GroupBy(key)[k])
  BY <1>1 DEF CountAndArea
<1>4. /\ SumFunction(Column(rows, "count")) = Cardinality(f)
      /\ SumFunction(Column(rows, "hectares")) = Hectares(t, f)
  BY <1>2, <1>3, CountAndAreaAddUp
<1> QED
  BY <1>1, <1>4 DEF rows

\* Each farm with a score is in one state.
LEMMA ClimateAddsUp ==
  ASSUME NEW t, IsTables(t), NEW filters, NEW farms, farms = FarmsPack(t, filters)
  PROVE  SumFunction(Column(farms.climateByState, "farmsWithScore")) = farms.climateCount
<1> DEFINE scored == Scored(t, Selected(t, filters))
           key == [x \in scored |-> t.farms[x].state]
           rows == farms.climateByState
           counts == [k \in DOMAIN GroupBy(key) |-> Cardinality(GroupBy(key)[k])]
<1>1. /\ rows = [k \in DOMAIN GroupBy(key) |-> [averageScore |-> Average(t, Each(GroupBy(key)[k])),
                                               farmsWithScore |-> Cardinality(GroupBy(key)[k])]]
      /\ farms.climateCount = Cardinality(scored)
  BY DEF FarmsPack
<1>2. DOMAIN key = scored /\ IsFiniteSet(scored)
  <2>1. scored \in SUBSET Selected(t, filters)
    BY DEF Scored
  <2> QED
    BY <2>1, SelectedFinite, FS_Subset
<1> HIDE DEF key, scored, rows
<1>3. /\ DOMAIN rows = DOMAIN counts
      /\ \A k \in DOMAIN rows : rows[k]["farmsWithScore"] = counts[k]
  BY <1>1
<1> HIDE DEF counts
<1>4. SumFunction(counts) = Cardinality(scored) /\ IsFiniteSet(DOMAIN counts)
  BY <1>2, CountsAddUp DEF counts
<1>5. SumFunction(Column(rows, "farmsWithScore")) = SumFunctionOnSet(counts, DOMAIN rows)
  BY <1>3, <1>4, SumOfColumn
<1> QED
  BY <1>1, <1>3, <1>4, <1>5 DEF rows, SumFunction

\* Finitely many harvests of finitely many crops.
LEMMA ActiveCropsFinite ==
  ASSUME NEW t, IsTables(t), NEW f
  PROVE  IsFiniteSet(ActiveCrops(t, f))
<1> DEFINE Rows(harvest) ==
             {[farm |-> harvest.farm, year |-> harvest.year, name |-> c] : c \in harvest.crops}
           Active == {h \in t.harvests : h.farm \in f /\ h.status = "ACTIVE"}
           rowsOf == [harvest \in Active |-> Rows(harvest)]
           Sets == {rowsOf[harvest] : harvest \in DOMAIN rowsOf}
<1>1. Active \in SUBSET t.harvests /\ IsFiniteSet(t.harvests)
  BY DEF IsTables
<1>2. IsFiniteSet(Active)
  BY <1>1, FS_Subset
<1>3. ASSUME NEW harvest \in Active PROVE IsFiniteSet(Rows(harvest))
  <2> DEFINE named == [c \in harvest.crops |->
                         [farm |-> harvest.farm, year |-> harvest.year, name |-> c]]
  <2>1. IsFiniteSet(harvest.crops)
    BY <1>1 DEF IsTables
  <2>2. DOMAIN named = harvest.crops /\ Rows(harvest) = {named[c] : c \in DOMAIN named}
    OBVIOUS
  <2> HIDE DEF named, Rows
  <2> QED
    BY <2>1, <2>2, ImageFinite
<1>4. ActiveCrops(t, f) = UNION Sets
  <2>1. Sets = {Rows(harvest) : harvest \in Active}
    OBVIOUS
  <2>2. ActiveCrops(t, f) = UNION {Rows(harvest) : harvest \in Active}
    BY DEF ActiveCrops
  <2> QED
    BY <2>1, <2>2
<1>5. /\ DOMAIN rowsOf = Active
      /\ \A harvest \in DOMAIN rowsOf : rowsOf[harvest] = Rows(harvest)
  OBVIOUS
<1> HIDE DEF Active, Rows, rowsOf
<1>6. IsFiniteSet(Sets)
  BY <1>2, <1>5, ImageFinite
<1>7. \A T \in Sets : IsFiniteSet(T)
  BY <1>3, <1>5
<1> HIDE DEF Sets
<1> QED
  BY <1>4, <1>6, <1>7, FS_UNION

\* Rows of active_crops by name, and by year and name.
LEMMA CropsAddUp ==
  ASSUME NEW t, IsTables(t), NEW filters, NEW crops, crops = CropsPack(t, filters)
  PROVE  /\ SumFunction(crops.byCrop) = SumFunction(crops.cropsByYear)
         /\ Near(Column(Shares(crops.byCrop), "percentage"))
<1> DEFINE active == ActiveCrops(t, Selected(t, filters))
           name == [crop \in active |-> crop.name]
           yearAndName == [crop \in active |-> <<crop.year, crop.name>>]
           byCrop == crops.byCrop
           cropsByYear == crops.cropsByYear
<1>1. /\ byCrop = [k \in DOMAIN GroupBy(name) |-> Cardinality(GroupBy(name)[k])]
      /\ cropsByYear = [k \in DOMAIN GroupBy(yearAndName) |-> Cardinality(GroupBy(yearAndName)[k])]
  BY DEF CropsPack
<1>2. DOMAIN name = active /\ DOMAIN yearAndName = active
  OBVIOUS
<1> HIDE DEF name, yearAndName, byCrop, cropsByYear
<1>3. IsFiniteSet(active)
  BY ActiveCropsFinite
<1> HIDE DEF active
<1>4. /\ SumFunction(byCrop) = Cardinality(active)
      /\ IsFiniteSet(DOMAIN byCrop)
      /\ \A k \in DOMAIN byCrop : byCrop[k] \in Nat \ {0}
      /\ DOMAIN byCrop # {} => SumFunction(byCrop) \in Nat \ {0}
  BY <1>1, <1>2, <1>3, CountsAddUp
<1>5. SumFunction(cropsByYear) = Cardinality(active)
  BY <1>1, <1>2, <1>3, CountsAddUp
<1>6. Near(Column(Shares(byCrop), "percentage"))
  BY <1>4, SharesOfCounts
<1> QED
  BY <1>4, <1>5, <1>6 DEF byCrop, cropsByYear

\* Live owners by status.
LEMMA EsgAddsUp ==
  ASSUME NEW t, IsTables(t), NEW filters, NEW esg, esg = EsgPack(t, filters)
  PROVE  Near(Column(Shares(esg), "percentage"))
<1> DEFINE f == Selected(t, filters)
           owner == [x \in f |-> t.farms[x].producer]
           owners == {owner[x] : x \in DOMAIN owner}
           live == {o \in owners : t.producers[o].live}
           key == [p \in live |-> t.producers[p].esgStatus]
<1>1. owners = {t.farms[x].producer : x \in f}
  OBVIOUS
<1>2. esg = [k \in DOMAIN GroupBy(key) |-> Cardinality(GroupBy(key)[k])]
  BY <1>1 DEF EsgPack
<1>3. DOMAIN owner = f /\ DOMAIN key = live /\ live \in SUBSET owners
  OBVIOUS
<1>4. IsFiniteSet(f)
  BY SelectedFinite
<1> HIDE DEF f, owner, key
<1>5. IsFiniteSet(owners)
  BY <1>3, <1>4, ImageFinite
<1> HIDE DEF owners, live
<1>6. IsFiniteSet(live)
  BY <1>3, <1>5, FS_Subset
<1>7. /\ IsFiniteSet(DOMAIN esg)
      /\ \A k \in DOMAIN esg : esg[k] \in Nat \ {0}
      /\ DOMAIN esg # {} => SumFunction(esg) \in Nat \ {0}
  BY <1>2, <1>3, <1>6, CountsAddUp
<1> QED
  BY <1>7, SharesOfCounts

\* A sum of two.
LEMMA SumOfTwo ==
  ASSUME NEW f, NEW a, NEW b, a # b, f[a] \in Int, f[b] \in Int
  PROVE  IsFiniteSet({a, b}) /\ SumFunctionOnSet(f, {a, b}) = f[a] + f[b]
<1> DEFINE S == {a, b}
<1>1. IsFiniteSet(S) /\ Ints(f, S) /\ S \in SUBSET S /\ {b} \in SUBSET S
  <2>1. IsFiniteSet({a}) /\ IsFiniteSet({b})
    BY FS_Singleton
  <2>2. IsFiniteSet({a} \cup {b})
    BY <2>1, FS_Union
  <2>3. S = {a} \cup {b}
    OBVIOUS
  <2> QED
    BY <2>2, <2>3 DEF Ints
<1>2. SumFunctionOnSet(f, S) = f[a] + SumFunctionOnSet(f, S \ {a})
  <2>1. a \in S
    OBVIOUS
  <2> HIDE DEF S
  <2> QED
    BY <1>1, <2>1, SumApart
<1>3. S \ {a} = {b}
  OBVIOUS
<1>4. SumFunctionOnSet(f, {b}) = f[b] + SumFunctionOnSet(f, {b} \ {b})
  <2> HIDE DEF S
  <2> QED
    BY <1>1, SumApart
<1>5. SumFunctionOnSet(f, {b} \ {b}) = 0
  <2>1. {b} \ {b} = {} /\ IsFiniteSet({})
    BY FS_EmptySet
  <2> QED
    BY <2>1, SumRecursion
<1>6. SumFunctionOnSet(f, {b}) = f[b]
  <2> HIDE DEF S
  <2> QED
    BY <1>4, <1>5
<1> QED
  BY <1>1, <1>2, <1>3, <1>6

\* Arable land and vegetation share the land that is either.
LEMMA LandUseAddsUp ==
  ASSUME NEW arable \in Nat, NEW vegetation \in Nat, arable + vegetation > 0, NEW landUse,
         landUse = [arable |-> Percentage(arable, arable + vegetation),
                    vegetation |-> Percentage(vegetation, arable + vegetation)]
  PROVE  Near(landUse)
<1> DEFINE K == {"arable", "vegetation"}
           counts == [k \in K |-> IF k = "arable" THEN arable ELSE vegetation]
           total == arable + vegetation
<1>1. /\ DOMAIN landUse = K
      /\ \A k \in K : counts[k] \in Nat /\ landUse[k] = Percentage(counts[k], total)
      /\ counts["arable"] = arable /\ counts["vegetation"] = vegetation
      /\ total \in Nat \ {0}
  OBVIOUS
<1> HIDE DEF counts, total
<1>2. IsFiniteSet(K) /\ SumFunctionOnSet(counts, K) = total
  <2>1. "arable" # "vegetation"
    OBVIOUS
  <2>2. /\ IsFiniteSet({"arable", "vegetation"})
        /\ SumFunctionOnSet(counts, {"arable", "vegetation"}) =
             counts["arable"] + counts["vegetation"]
    BY <1>1, <2>1, SumOfTwo
  <2> QED
    BY <1>1, <2>2 DEF total
<1> HIDE DEF K
<1>3. 2 * (SumFunctionOnSet(landUse, K) - 10000) \in -Cardinality(K)..Cardinality(K)
  BY <1>1, <1>2, SharesAddUp
<1> QED
  BY <1>1, <1>3 DEF Near, SumFunction

\* Areas of land use are natural numbers.
LEMMA LandIsNat ==
  ASSUME NEW t, IsTables(t), NEW filters, NEW farms, farms = FarmsPack(t, filters)
  PROVE  farms.arableHectares \in Nat /\ farms.vegetationHectares \in Nat
<1> DEFINE f == Selected(t, filters)
           arable == [x \in f |-> t.farms[x].arable]
           vegetation == [x \in f |-> t.farms[x].vegetation]
<1>1. IsFiniteSet(f) /\ f \in SUBSET (DOMAIN t.farms)
  BY SelectedFinite
<1>2. \A x \in f : t.farms[x].arable \in Nat /\ t.farms[x].vegetation \in Nat
  BY <1>1 DEF IsTables
<1>3. /\ DOMAIN arable = f /\ DOMAIN vegetation = f
      /\ \A x \in f : arable[x] \in Nat /\ vegetation[x] \in Nat
  BY <1>2
<1>4. /\ farms.arableHectares = SumFunction(arable)
      /\ farms.vegetationHectares = SumFunction(vegetation)
  BY DEF FarmsPack
<1> HIDE DEF f, arable, vegetation
<1>5. SumFunctionOnSet(arable, f) \in Nat /\ SumFunctionOnSet(vegetation, f) \in Nat
  BY <1>1, <1>3, SumIsNat
<1> QED
  BY <1>3, <1>4, <1>5 DEF SumFunction

\* The packs may be of three table states.
LEMMA PacksAddUp ==
  ASSUME NEW t1, IsTables(t1), NEW t2, IsTables(t2), NEW t3, IsTables(t3), NEW filters
  PROVE  AddUp(FarmsPack(t1, filters), CropsPack(t2, filters), EsgPack(t3, filters))
<1> DEFINE farms == FarmsPack(t1, filters)
           crops == CropsPack(t2, filters)
           esg == EsgPack(t3, filters)
           stats == AssembleStats(farms, crops, esg)
<1>1. /\ SumFunction(Column(farms.farmsByMonth, "count")) = farms.totalFarms
      /\ SumFunction(Column(farms.farmsByMonth, "hectares")) = farms.totalHectares
      /\ SumFunction(Column(farms.climateByState, "farmsWithScore")) = farms.climateCount
  BY MonthsAddUp, ClimateAddsUp
<1>2. /\ SumFunction(crops.byCrop) = SumFunction(crops.cropsByYear)
      /\ Near(Column(Shares(crops.byCrop), "percentage"))
      /\ Near(Column(Shares(esg), "percentage"))
  BY CropsAddUp, EsgAddsUp
<1> DEFINE arable == farms.arableHectares
           vegetation == farms.vegetationHectares
<1>3. arable \in Nat /\ vegetation \in Nat
  BY LandIsNat
<1> HIDE DEF crops, esg
<1>4. /\ stats.totalFarms = farms.totalFarms
      /\ stats.byCrop = Shares(crops.byCrop)
      /\ stats.byEsgStatus = Shares(esg)
      /\ stats.byState =
           [s \in DOMAIN farms.byState |->
              [count |-> farms.byState[s].count,
               hectares |-> farms.byState[s].hectares,
               percentage |-> Percentage(farms.byState[s].hectares, farms.totalHectares)]]
      /\ stats.byCarStatus =
           [c \in DOMAIN farms.byCar |->
              [count |-> farms.byCar[c],
               percentage |-> Percentage(farms.byCar[c], farms.totalFarms)]]
      /\ stats.byLandUse = [arable |-> Percentage(arable, arable + vegetation),
                            vegetation |-> Percentage(vegetation, arable + vegetation)]
  BY DEF AssembleStats
<1> HIDE DEF stats
<1>5. /\ SumFunction(Column(stats.byState, "count")) = farms.totalFarms
      /\ SumFunction(Column(stats.byState, "hectares")) = farms.totalHectares
      /\ Near(Column(stats.byState, "percentage"))
  BY <1>4, StatesAddUp
<1>6. /\ SumFunction(Column(stats.byCarStatus, "count")) = farms.totalFarms
      /\ Near(Column(stats.byCarStatus, "percentage"))
  BY <1>4, CarStatusesAddUp
<1>7. ASSUME arable + vegetation > 0 PROVE Near(stats.byLandUse)
  <2> DEFINE landUse == stats.byLandUse
  <2> HIDE DEF landUse, arable, vegetation
  <2>1. landUse = [arable |-> Percentage(arable, arable + vegetation),
                   vegetation |-> Percentage(vegetation, arable + vegetation)]
    BY <1>4 DEF landUse
  <2>2. Near(landUse)
    BY <1>3, <1>7, <2>1, LandUseAddsUp
  <2> QED
    BY <2>2 DEF landUse
<1> HIDE DEF farms
<1>8. AddUp(farms, crops, esg)
  BY <1>1, <1>2, <1>4, <1>5, <1>6, <1>7 DEF AddUp, stats
<1> QED
  BY <1>8 DEF farms, crops, esg

\* The partitions of one answer add up to its totals, and its percentages to
\* 100 but for half a hundredth each, whatever the tables hold: the farms without a
\* CAR status, a climate score or a crop included, and also when the three
\* packs were read from different states of the tables.
THEOREM PartsAlwaysAddUp == Spec => []PartsAddUp
<1>1. DashboardInv => PartsAddUp
  <2> SUFFICES ASSUME DashboardInv PROVE PartsAddUp
    OBVIOUS
  <2>1. \A i \in 1..Len(story) : IsTables(story[i])
    BY StoryLength DEF DashboardInv
  <2>2. ASSUME NEW a \in answers, a.ok, a.request.endpoint # "analytics"
        PROVE  AddUp(PackOf(a.value, "farms"), PackOf(a.value, "crops"), PackOf(a.value, "esg"))
    <3>1. a.value \in Loads /\ \A pack \in PackNames : a.value.read[pack] # Unread
      BY <2>2 DEF DashboardInv, AnswersInTime, ReadWithin, Packs, PackNames
    <3>2. now \in 1..Len(story) /\ Len(story) \in Nat
      BY StoryLength DEF DashboardInv, StoryOK
    <3>3. \A pack \in PackNames : a.value.read[pack] \in 1..Len(story)
      BY <3>1, <3>2 DEF Loads, Unread
    <3>4. /\ IsTables(story[a.value.read["farms"]])
          /\ IsTables(story[a.value.read["crops"]])
          /\ IsTables(story[a.value.read["esg"]])
      BY <2>1, <3>3 DEF PackNames
    <3>5. /\ PackOf(a.value, "farms") =
               FarmsPack(story[a.value.read["farms"]], a.value.filters)
          /\ PackOf(a.value, "crops") =
               CropsPack(story[a.value.read["crops"]], a.value.filters)
          /\ PackOf(a.value, "esg") =
               EsgPack(story[a.value.read["esg"]], a.value.filters)
      BY DEF PackOf
    <3> QED
      BY <3>4, <3>5, PacksAddUp
  <2>3. ASSUME NEW filters \in FilterSets
        PROVE  AddUp(FarmsPack(story[now], filters), CropsPack(story[now], filters),
                     EsgPack(story[now], filters))
    <3>1. IsTables(story[now])
      BY <2>1 DEF DashboardInv, StoryOK
    <3> QED
      BY <3>1, PacksAddUp
  <2> QED
    BY <2>2, <2>3 DEF PartsAddUp
<1> QED
  BY <1>1, DashboardInvariant, PTL
=============================================================================
