--------------------------- MODULE BrasilApiProofs ---------------------------
(***************************************************************************)
(* For any companies, states, callers and timers: what BrasilApi types, that *)
(* a verdict it gives is BrasilAPI's own and not older than the TTL and one  *)
(* request, and that no CNPJ is PENDING without an outage.                   *)
(*                                                                         *)
(* The first two follow from what every running call and every cache entry *)
(* stands for; the third from the fact that, without an outage, every call *)
(* under way is answered before a timer ends.                              *)
(***************************************************************************)
EXTENDS BrasilApi, FiniteSetTheorems, TLAPS

Slot == [lookup : Lookups \cup {NoLookup}, waiting : BOOLEAN, attempt : 1..MaxAttempts,
         phase : {"none", "prompt", "doubtful", "backoff"},
         left : Nat, limit : 0..Timeout]
Circuit == [state : {"closed", "open", "halfOpen"}, pendingClose : BOOLEAN,
            left : 0..ResetTimeout, fires : 0..MaxFires, failures : 0..MaxFires]
Entry == [names : SUBSET Names, left : 0..TTL, age : Nat, known : BOOLEAN]
Answers == [lookup : Lookups \cup {NoLookup}, outcome : Told,
            names : SUBSET Names, age : Nat]

\* A call under way is for a lookup, its request ends in time, and what waits
\* for a retry has an attempt left.
SlotSound(r) ==
  /\ r.phase # "none" \/ r.waiting => r.lookup \in Lookups
  /\ r.phase \in {"prompt", "doubtful"} => r.left <= Timeout
  /\ r.phase = "backoff" => r.attempt < MaxAttempts

\* An entry holds what BrasilAPI says of its key, and not for too long.
EntrySound(k, e) ==
  e.known => /\ Exists(k)
             /\ e.names = Listed(k)
             /\ e.age + e.left <= TTL + Timeout

\* A verdict is BrasilAPI's, and fresh.
AnswerSound(a) ==
  /\ a.outcome \in {"VALIDATED", "REJECTED"} =>
       /\ a.outcome = Truth(a.lookup).outcome
       /\ a.names = Truth(a.lookup).names
  /\ a.age <= TTL + Timeout

CallsOK == call \in [Calls -> Slot] /\ \A c \in Calls : SlotSound(call[c])
BreakersOK == breaker \in [Breakers -> Circuit]
CacheOK == cache \in [Keys -> Entry] /\ \A k \in Keys : EntrySound(k, cache[k])
AnswerOK == answer \in Answers /\ AnswerSound(answer)
WorldOK == workload \in Workloads /\ up \in BOOLEAN /\ outage \in BOOLEAN

Contract == CallsOK /\ BreakersOK /\ CacheOK /\ AnswerOK /\ WorldOK

-----------------------------------------------------------------------------
(* Values *)

\* The bounds are natural numbers.
LEMMA BoundsType ==
  /\ Timeout \in Nat \ {0} /\ ResetTimeout \in Nat \ {0} /\ TTL \in Nat \ {0}
  /\ MaxAttempts \in Nat \ {0} /\ Backoff \in Nat \ {0} /\ MaxFires \in Nat \ {0}
BY BrasilApiAssumption

\* Two to a natural number is one: it counts the subsets of an interval.
LEMMA PowerOfTwo == ASSUME NEW n \in Nat PROVE 2^n \in Nat
<1>1. IsFiniteSet(1..n) /\ Cardinality(1..n) = n
  BY FS_Interval
<1>2. IsFiniteSet(SUBSET (1..n)) /\ Cardinality(SUBSET (1..n)) = 2^n
  BY <1>1, FS_SUBSET
<1>3. QED
  BY <1>2, FS_CardinalityType

\* The delays of withRetry are natural numbers.
LEMMA DelayType == ASSUME NEW a \in 1..MaxAttempts PROVE Delay(a) \in Nat
<1>1. a - 1 \in Nat
  BY BoundsType
<1>2. 2^(a - 1) \in Nat
  BY <1>1, PowerOfTwo
<1>3. QED
  BY <1>2, BoundsType DEF Delay

\* What BrasilAPI lists are names.
LEMMA ListedType == ASSUME NEW k PROVE Listed(k) \in SUBSET Names
BY DEF Listed, Names, Cnpjs

LEMMA AskedType ==
  ASSUME NEW l, NEW names \in SUBSET Names PROVE Asked(l, names) \in SUBSET Names
BY DEF Asked

LEMMA LookupFields ==
  ASSUME NEW l \in Lookups
  PROVE  l.op \in Breakers /\ l.key \in Keys
BY DEF Lookups, Breakers, Keys

LEMMA CircuitTypes ==
  ASSUME NEW b \in Circuit
  PROVE  /\ b.fires < MaxFires => Fired(b) \in Circuit
         /\ Succeeded(b) \in Circuit
         /\ Failed(b) \in Circuit
<1> USE BoundsType
<1>1. ASSUME b.fires < MaxFires PROVE Fired(b) \in Circuit
  <2> DEFINE n == IF b.state = "closed" THEN b.fires + 1 ELSE b.fires
  <2>1. n \in 0..MaxFires
    BY <1>1 DEF Circuit
  <2>2. Fired(b) = [b EXCEPT !.pendingClose = FALSE, !.fires = n]
    BY DEF Fired
  <2> HIDE DEF n
  <2>3. QED
    BY <2>1, <2>2 DEF Circuit
<1>2. Succeeded(b) \in Circuit
  BY DEF Circuit, Succeeded
<1>3. Failed(b) \in Circuit
  <2> DEFINE failures == IF b.failures < MaxFires THEN b.failures + 1 ELSE b.failures
             opened == [Closed EXCEPT !.state = "open", !.left = ResetTimeout]
  <2>1. failures \in 0..MaxFires
    BY DEF Circuit
  <2>2. opened \in Circuit
    <3>1. Closed \in Circuit
      BY DEF Circuit, Closed
    <3>2. \A c \in Circuit : [c EXCEPT !.state = "open"] \in Circuit
      BY DEF Circuit
    <3>3. \A c \in Circuit : [c EXCEPT !.left = ResetTimeout] \in Circuit
      BY DEF Circuit
    <3>4. opened = [[Closed EXCEPT !.state = "open"] EXCEPT !.left = ResetTimeout]
      OBVIOUS
    <3>5. QED
      BY <3>1, <3>2, <3>3, <3>4, Zenon
  <2>3. \/ Failed(b) = [b EXCEPT !.failures = failures]
        \/ Failed(b) = b
        \/ Failed(b) = opened
    BY DEF Failed
  <2> HIDE DEF failures, opened
  <2>4. [b EXCEPT !.failures = failures] \in Circuit
    BY <2>1 DEF Circuit
  <2>5. QED
    BY <2>2, <2>3, <2>4
<1>4. QED
  BY <1>1, <1>2, <1>3

LEMMA IdleSlot == Idle \in Slot /\ SlotSound(Idle)
BY BoundsType DEF Idle, Slot, SlotSound

\* An answer that is no verdict is sound.
LEMMA NoVerdict ==
  /\ Nothing \in Answers /\ AnswerSound(Nothing)
  /\ \A l \in Lookups : Pending(l) \in Answers /\ AnswerSound(Pending(l))
BY BoundsType DEF Nothing, Pending, Answers, AnswerSound, Told

\* A list of a known key, and a 404 for an unknown one, are verdicts.
LEMMA Verdicts ==
  ASSUME NEW l \in Lookups, NEW age \in Nat, age <= TTL + Timeout
  PROVE  /\ Exists(l.key) =>
              /\ Validated(l, Listed(l.key), age) \in Answers
              /\ AnswerSound(Validated(l, Listed(l.key), age))
         /\ ~Exists(l.key) => NotFound(l) \in Answers /\ AnswerSound(NotFound(l))
<1>1. Asked(l, Listed(l.key)) \in SUBSET Names
  BY ListedType, AskedType
<1>2. Validated(l, Listed(l.key), age) \in Answers
  BY <1>1 DEF Validated, Answers, Told
<1>3. Exists(l.key) => AnswerSound(Validated(l, Listed(l.key), age))
  BY BoundsType DEF AnswerSound, Validated, Truth
<1>4. NotFound(l) \in Answers
  BY DEF NotFound, Answers, Told
<1>5. ~Exists(l.key) => AnswerSound(NotFound(l))
  BY BoundsType DEF AnswerSound, NotFound, Truth
<1>6. QED
  BY <1>2, <1>3, <1>4, <1>5

-----------------------------------------------------------------------------
(* Updates *)

\* The invariant is what the properties say, and more.
LEMMA ContractImplies == Contract => TypeOK /\ NoSilentPositive /\ AnswersFresh
BY DEF Contract, CallsOK, BreakersOK, CacheOK, AnswerOK, WorldOK, AnswerSound, Slot,
       Circuit, Entry, Answers, TypeOK, NoSilentPositive, AnswersFresh

LEMMA SetSlot ==
  ASSUME CallsOK, NEW c \in Calls, NEW r \in Slot, SlotSound(r), Set(c, r)
  PROVE  CallsOK'
BY DEF CallsOK, Set, SlotSound

LEMMA SetCircuit ==
  ASSUME BreakersOK, NEW op, NEW b \in Circuit, SetBreaker(op, b)
  PROVE  BreakersOK'
BY DEF BreakersOK, SetBreaker

\* A fetched list is stored as what it is.
LEMMA PutEntry ==
  ASSUME CacheOK, NEW k \in Keys, Exists(k), NEW age \in 0..Timeout,
         Put(k, Listed(k), age)
  PROVE  CacheOK'
<1> DEFINE e == Stored(Listed(k), age)
<1>1. e \in Entry /\ EntrySound(k, e)
  BY BoundsType, ListedType DEF Stored, Entry, EntrySound
<1>2. cache' = [cache EXCEPT ![k] = e]
  BY DEF Put
<1> HIDE DEF e
<1>3. QED
  BY <1>1, <1>2 DEF CacheOK, EntrySound

LEMMA TellAnswer ==
  ASSUME NEW a \in Answers, AnswerSound(a), Tell(a)
  PROVE  AnswerOK'
BY DEF AnswerOK, Tell, AnswerSound

LEMMA Silence == Silent => AnswerOK'
BY NoVerdict, TellAnswer DEF Silent

\* Lookups are those of the workload.
LEMMA WorkloadType == ASSUME Contract PROVE workload \subseteq Lookups
BY DEF Contract, WorldOK, Workloads

LEMMA UnchangedWorld == ASSUME Contract, UNCHANGED World PROVE WorldOK'
BY DEF Contract, WorldOK, World

-----------------------------------------------------------------------------
(* Lookups *)

LEMMA AskKeeps ==
  ASSUME Contract, NEW c \in Calls, NEW l \in workload, Ask(c, l)
  PROVE  Contract'
<1> USE DEF Contract
<1>1. l \in Lookups /\ l.op \in Breakers /\ l.key \in Keys
  BY WorkloadType, LookupFields
<1>2. breaker[l.op] \in Circuit
  BY <1>1 DEF BreakersOK
<1>3. WorldOK'
  BY UnchangedWorld DEF Ask, AnswerFromCache, Reject, Request, CityFromCache, MalformedCity
<1>4. ASSUME cache[l.key].known,
             Tell(Validated(l, cache[l.key].names, cache[l.key].age))
      PROVE  AnswerOK'
  <2>1. /\ Exists(l.key) /\ cache[l.key].names = Listed(l.key)
        /\ cache[l.key].age \in Nat /\ cache[l.key].age <= TTL + Timeout
    BY <1>1, <1>4, BoundsType DEF CacheOK, EntrySound, Entry
  <2>2. QED
    BY <1>1, <1>4, <2>1, Verdicts, TellAnswer
<1>5. CASE AnswerFromCache(c, l)
  BY <1>3, <1>4, <1>5 DEF AnswerFromCache, CallsOK, BreakersOK, CacheOK
<1>6. CASE Reject(c, l)
  <2>1. AnswerOK'
    BY <1>1, <1>6, NoVerdict, TellAnswer DEF Reject
  <2>2. QED
    BY <1>3, <1>6, <2>1 DEF Reject, CallsOK, BreakersOK, CacheOK
<1>7. CASE Request(c, l)
  <2> DEFINE r == [lookup |-> l, waiting |-> TRUE, phase |-> Phase, attempt |-> 1,
                   left |-> Timeout, limit |-> Timeout]
  <2>1. r \in Slot /\ SlotSound(r)
    BY <1>1, BoundsType DEF Slot, SlotSound, Phase
  <2>2. Set(c, r)
    BY <1>7 DEF Request
  <2> HIDE DEF r
  <2>3. CallsOK'
    BY <2>1, <2>2, SetSlot
  <2>4. BreakersOK'
    BY <1>2, <1>7, CircuitTypes, SetCircuit, BoundsType DEF Request, Admit, Circuit
  <2>5. AnswerOK'
    BY <1>7, Silence DEF Request
  <2>6. QED
    BY <1>3, <1>7, <2>3, <2>4, <2>5 DEF Request, CacheOK
<1>8. CASE CityFromCache(c, l)
  <2>1. Fired(breaker[l.op]) \in Circuit
    BY <1>2, <1>8, CircuitTypes DEF CityFromCache, Admit
  <2>2. BreakersOK'
    BY <1>8, <2>1, CircuitTypes, SetCircuit DEF CityFromCache
  <2>3. AnswerOK'
    BY <1>4, <1>8 DEF CityFromCache
  <2>4. QED
    BY <1>3, <1>8, <2>2, <2>3 DEF CityFromCache, CityHit, CallsOK, CacheOK
<1>9. CASE MalformedCity(c, l)
  <2>1. Fired(breaker[l.op]) \in Circuit
    BY <1>2, <1>9, CircuitTypes DEF MalformedCity, Admit
  <2>2. BreakersOK'
    BY <1>9, <2>1, CircuitTypes, SetCircuit DEF MalformedCity
  <2>3. AnswerOK'
    BY <1>1, <1>9, NoVerdict, TellAnswer DEF MalformedCity
  <2>4. QED
    BY <1>3, <1>9, <2>2, <2>3 DEF MalformedCity, CallsOK, CacheOK
<1>10. QED
  BY <1>5, <1>6, <1>7, <1>8, <1>9 DEF Ask

-----------------------------------------------------------------------------
(* Running calls *)

\* The caller of a failing action is told PENDING.
LEMMA FailureKeeps ==
  ASSUME Contract, NEW c \in Calls, call[c].phase # "none", ActionFails(c)
  PROVE  Contract'
<1> USE DEF Contract
<1>1. Lookup(c) \in Lookups /\ Lookup(c).op \in Breakers
  BY LookupFields DEF CallsOK, SlotSound, Lookup
<1>2. CallsOK'
  BY IdleSlot, SetSlot DEF ActionFails
<1>3. BreakersOK'
  BY <1>1, CircuitTypes, SetCircuit DEF ActionFails, BreakersOK
<1>4. AnswerOK'
  BY <1>1, NoVerdict, TellAnswer, Silence DEF ActionFails
<1>5. QED
  BY <1>2, <1>3, <1>4, UnchangedWorld DEF ActionFails, CacheOK

\* The caller of an action that returns is told what it returns.
LEMMA ReturnKeeps ==
  ASSUME Contract, NEW c \in Calls, call[c].phase # "none",
         NEW a \in Answers, AnswerSound(a), ActionReturns(c, a)
  PROVE  CallsOK' /\ BreakersOK' /\ AnswerOK'
<1> USE DEF Contract
<1>1. Lookup(c).op \in Breakers
  BY LookupFields DEF CallsOK, SlotSound, Lookup
<1>2. CallsOK'
  BY IdleSlot, SetSlot DEF ActionReturns
<1>3. BreakersOK'
  BY <1>1, CircuitTypes, SetCircuit DEF ActionReturns, BreakersOK
<1>4. AnswerOK'
  BY TellAnswer, Silence DEF ActionReturns
<1>5. QED
  BY <1>2, <1>3, <1>4

LEMMA ProgressKeeps ==
  ASSUME Contract, NEW c \in Calls, Progress(c)
  PROVE  Contract'
<1> USE DEF Contract
<1>1. call[c] \in Slot /\ SlotSound(call[c])
  BY DEF CallsOK
<1>2. CASE Found(c)
  <2> DEFINE age == Timeout - call[c].left
             l == Lookup(c)
  <2>1. call[c].phase # "none" /\ l \in Lookups /\ l.key \in Keys /\ Exists(l.key)
    BY <1>1, <1>2, LookupFields DEF Found, Requesting, SlotSound, Lookup
  <2>2. age \in 0..Timeout
    BY <1>1, <1>2, BoundsType DEF Found, Requesting, SlotSound, Slot
  <2>3. Validated(l, Listed(l.key), age) \in Answers
        /\ AnswerSound(Validated(l, Listed(l.key), age))
    BY <2>1, <2>2, Verdicts, BoundsType
  <2>4. ActionReturns(c, Validated(l, Listed(l.key), age))
    BY <1>2 DEF Found
  <2>5. CASE Stores(c)
    <3>1. Put(l.key, Listed(l.key), age)
      BY <1>2, <2>5 DEF Found
    <3>2. CacheOK'
      BY <2>1, <2>2, <3>1, PutEntry
    <3>3. QED
      BY <1>2, <2>1, <2>3, <2>4, <3>2, ReturnKeeps, UnchangedWorld DEF Found
  <2>6. CASE ~Stores(c)
    <3>1. CacheOK'
      BY <1>2, <2>6 DEF Found, CacheOK
    <3>2. QED
      BY <1>2, <2>1, <2>3, <2>4, <3>1, ReturnKeeps, UnchangedWorld DEF Found
  <2>7. QED
    BY <2>5, <2>6
<1>3. CASE Missing(c)
  <2> DEFINE l == Lookup(c)
  <2>1. call[c].phase # "none" /\ l \in Lookups /\ ~Exists(l.key)
    BY <1>1, <1>3 DEF Missing, Requesting, SlotSound, Lookup
  <2>2. CASE l.op = "cnpj"
    <3>1. NotFound(l) \in Answers /\ AnswerSound(NotFound(l))
      BY <2>1, Verdicts, BoundsType
    <3>2. ActionReturns(c, NotFound(l)) /\ UNCHANGED <<cache, World>>
      BY <1>3, <2>2 DEF Missing, CnpjMissing
    <3>3. QED
      BY <2>1, <3>1, <3>2, ReturnKeeps, UnchangedWorld DEF CacheOK
  <2>3. CASE l.op # "cnpj"
    BY <1>3, <2>1, <2>3, FailureKeeps DEF Missing, UfMissing
  <2>4. QED
    BY <2>2, <2>3
<1>4. CASE Refused(c)
  BY <1>4, FailureKeeps DEF Refused
<1>5. CASE Transient(c)
  <2>1. CASE ActionFails(c)
    BY <1>5, <2>1, FailureKeeps DEF Transient
  <2>2. CASE ~GivesUp(c) /\ ~ActionFails(c)
    <3> DEFINE r == [call[c] EXCEPT !.phase = "backoff", !.left = Delay(call[c].attempt)]
    <3>1. call[c].attempt \in 1..MaxAttempts /\ call[c].attempt < MaxAttempts
      BY <1>1, <2>2, BoundsType DEF Slot, GivesUp
    <3>2. Delay(call[c].attempt) \in Nat
      BY <3>1, DelayType
    <3>3. r \in Slot /\ SlotSound(r)
      BY <1>1, <1>5, <3>1, <3>2 DEF Slot, SlotSound, Transient
    <3>4. Set(c, r) /\ Silent /\ UNCHANGED <<breaker, cache, World>>
      BY <1>5, <2>2 DEF Transient
    <3> HIDE DEF r
    <3>5. QED
      BY <3>3, <3>4, SetSlot, Silence, UnchangedWorld DEF BreakersOK, CacheOK
  <2>3. QED
    BY <1>5, <2>1, <2>2 DEF Transient
<1>6. CASE Retry(c)
  <2> DEFINE r == [call[c] EXCEPT !.phase = Phase, !.left = Timeout, !.attempt = @ + 1]
  <2>1. call[c].attempt + 1 \in 1..MaxAttempts
    BY <1>1, <1>6, BoundsType DEF Retry, Slot, SlotSound
  <2>5. Phase \in {"prompt", "doubtful"}
    BY DEF Phase
  <2>6. /\ r.lookup = call[c].lookup /\ r.phase = Phase /\ r.left = Timeout
        /\ r \in Slot
    BY <1>1, <2>1, <2>5, BoundsType DEF Slot
  <2>7. call[c].lookup \in Lookups
    BY <1>1, <1>6 DEF Retry, SlotSound
  <2>2. r \in Slot /\ SlotSound(r)
    <3> HIDE DEF r
    <3>1. QED
      BY <2>5, <2>6, <2>7, BoundsType DEF SlotSound
  <2>3. Set(c, r) /\ Silent /\ UNCHANGED <<breaker, cache, World>>
    BY <1>6 DEF Retry
  <2> HIDE DEF r
  <2>4. QED
    BY <2>2, <2>3, SetSlot, Silence, UnchangedWorld DEF BreakersOK, CacheOK
<1>7. CASE TimesOut(c)
  <2> DEFINE r == [call[c] EXCEPT !.waiting = FALSE]
  <2>1. Lookup(c) \in Lookups /\ Lookup(c).op \in Breakers
    BY <1>1, <1>7, LookupFields DEF TimesOut, SlotSound, Lookup
  <2>2. r \in Slot /\ SlotSound(r)
    BY <1>1 DEF Slot, SlotSound
  <2>3. Set(c, r) /\ Tell(Pending(Lookup(c))) /\ UNCHANGED <<cache, World>>
        /\ SetBreaker(Lookup(c).op, Failed(breaker[Lookup(c).op]))
    BY <1>7 DEF TimesOut
  <2> HIDE DEF r
  <2>4. BreakersOK'
    BY <2>1, <2>3, CircuitTypes, SetCircuit DEF BreakersOK
  <2>5. QED
    BY <2>1, <2>2, <2>3, <2>4, SetSlot, NoVerdict, TellAnswer, UnchangedWorld DEF CacheOK
<1>8. QED
  BY <1>2, <1>3, <1>4, <1>5, <1>6, <1>7 DEF Progress

-----------------------------------------------------------------------------
(* Time and the outside *)

LEMMA TickKeeps == ASSUME Contract, Tick PROVE Contract'
<1> USE DEF Contract
<1>1. CallsOK'
  <2>1. \A c \in Calls : call'[c] \in Slot /\ SlotSound(call'[c])
    <3>1. ASSUME NEW c \in Calls PROVE call'[c] \in Slot /\ SlotSound(call'[c])
      <4> DEFINE r == [call[c] EXCEPT !.left = Less(@), !.limit = Less(@)]
      <4>1. call[c] \in Slot /\ SlotSound(call[c])
        BY DEF CallsOK
      <4>2. Less(call[c].left) \in Nat /\ Less(call[c].limit) \in 0..Timeout
            /\ Less(call[c].left) <= call[c].left
        BY <4>1, BoundsType DEF Less, Slot
      <4>5. /\ r.lookup = call[c].lookup /\ r.waiting = call[c].waiting
            /\ r.attempt = call[c].attempt /\ r.phase = call[c].phase
            /\ r.left = Less(call[c].left)
            /\ r \in Slot
        BY <4>1, <4>2 DEF Slot
      <4>3. r \in Slot /\ SlotSound(r)
        <5> HIDE DEF r
        <5>1. QED
          BY <4>1, <4>2, <4>5, BoundsType DEF Slot, SlotSound
      <4> HIDE DEF r
      <4>6. call'[c] = r
        BY DEF Tick, r
      <4>4. QED
        BY <4>3, <4>6
    <3>2. QED
      BY <3>1
  <2>2. QED
    BY <2>1 DEF CallsOK, Tick
<1>2. BreakersOK'
  <2>1. PICK rolled \in SUBSET {l.op : l \in workload} :
          breaker' = [op \in Breakers |->
            [breaker[op] EXCEPT !.left = Less(@),
                                !.fires = IF op \in rolled THEN 0 ELSE @,
                                !.failures = IF op \in rolled THEN 0 ELSE @]]
    BY DEF Tick
  <2>2. ASSUME NEW op \in Breakers PROVE breaker'[op] \in Circuit
    <3>1. breaker[op] \in Circuit /\ Less(breaker[op].left) \in 0..ResetTimeout
      BY BoundsType DEF BreakersOK, Circuit, Less
    <3>2. breaker'[op] =
            [state |-> breaker[op].state, pendingClose |-> breaker[op].pendingClose,
             left |-> Less(breaker[op].left),
             fires |-> IF op \in rolled THEN 0 ELSE breaker[op].fires,
             failures |-> IF op \in rolled THEN 0 ELSE breaker[op].failures]
      BY <2>1, <3>1 DEF Circuit
    <3>3. QED
      BY <3>1, <3>2, BoundsType DEF Circuit
  <2>3. QED
    BY <2>1, <2>2 DEF BreakersOK
<1>3. CacheOK'
  <2>1. ASSUME NEW k \in Keys, NEW e \in Entry, EntrySound(k, e)
        PROVE  Aged(e) \in Entry /\ EntrySound(k, Aged(e))
    <3>1. CASE ~e.known \/ e.left = 0
      BY <3>1, BoundsType DEF Aged, NoEntry, Entry, EntrySound
    <3>2. CASE e.known /\ e.left # 0
      <4>1. Aged(e) = [names |-> e.names, left |-> e.left - 1, age |-> e.age + 1, known |-> TRUE]
        BY <3>2 DEF Aged, Entry
      <4>2. e.left - 1 \in 0..TTL /\ e.age + 1 \in Nat
            /\ (e.age + 1) + (e.left - 1) <= TTL + Timeout
        BY <2>1, <3>2, BoundsType DEF Entry, EntrySound
      <4>3. QED
        BY <2>1, <3>2, <4>1, <4>2 DEF Entry, EntrySound
    <3>3. QED
      BY <3>1, <3>2 DEF Entry
  <2>2. QED
    BY <2>1 DEF Tick, CacheOK
<1>4. AnswerOK'
  BY Silence DEF Tick
<1>5. QED
  BY <1>1, <1>2, <1>3, <1>4, UnchangedWorld DEF Tick

LEMMA OutsideKeeps ==
  ASSUME Contract, (\E op \in Breakers : HalfOpen(op)) \/ GoDown \/ ComeUp
  PROVE  Contract'
<1> USE DEF Contract
<1>1. ASSUME NEW op \in Breakers, HalfOpen(op) PROVE Contract'
  <2> DEFINE b == [breaker[op] EXCEPT !.state = "halfOpen", !.pendingClose = TRUE]
  <2>1. b \in Circuit
    BY DEF BreakersOK, Circuit
  <2>2. SetBreaker(op, b)
    BY <1>1 DEF HalfOpen
  <2> HIDE DEF b
  <2>3. QED
    BY <1>1, <2>1, <2>2, SetCircuit, Silence, UnchangedWorld DEF HalfOpen, CallsOK, CacheOK
<1>2. CASE GoDown
  BY <1>2, Silence DEF GoDown, CallsOK, BreakersOK, CacheOK, WorldOK
<1>3. CASE ComeUp
  BY <1>3, Silence DEF ComeUp, CallsOK, BreakersOK, CacheOK, WorldOK
<1>4. QED
  BY <1>1, <1>2, <1>3

LEMMA InitContract == ASSUME Init PROVE Contract
<1>1. CallsOK
  BY IdleSlot DEF Init, CallsOK
<1>2. BreakersOK
  <2>1. Closed \in Circuit
    BY BoundsType DEF Closed, Circuit
  <2>2. QED
    BY <2>1 DEF Init, BreakersOK
<1>3. CacheOK
  BY BoundsType DEF Init, CacheOK, NoEntry, Entry, EntrySound
<1>4. AnswerOK
  BY NoVerdict DEF Init, AnswerOK
<1>5. QED
  BY <1>1, <1>2, <1>3, <1>4 DEF Init, Contract, WorldOK

LEMMA StepContract == ASSUME Contract, [Next]_vars PROVE Contract'
<1>1. ASSUME NEW c \in Calls, NEW l \in workload, Ask(c, l) PROVE Contract'
  BY <1>1, AskKeeps
<1>2. ASSUME NEW c \in Calls, Progress(c) PROVE Contract'
  BY <1>2, ProgressKeeps
<1>3. CASE (\E op \in Breakers : HalfOpen(op)) \/ GoDown \/ ComeUp
  BY <1>3, OutsideKeeps
<1>4. CASE Tick
  BY <1>4, TickKeeps
<1>5. CASE UNCHANGED vars
  BY <1>5 DEF vars, Contract, CallsOK, BreakersOK, CacheOK, AnswerOK, WorldOK
<1>6. QED
  BY <1>1, <1>2, <1>3, <1>4, <1>5 DEF Next

\* What running calls and cache entries stand for, in every state.
THEOREM ContractHolds == Spec => []Contract
<1>1. Init => Contract
  BY InitContract
<1>2. Contract /\ [Next]_vars => Contract'
  BY StepContract
<1>3. QED
  BY <1>1, <1>2, PTL DEF Spec

\* The types of the adapter's state: in particular withRetry never starts more
\* attempts than it may, and no timer runs longer than it was set to.
THEOREM BrasilTypes == Spec => []TypeOK
<1>1. Contract => TypeOK
  BY ContractImplies
<1>2. QED
  BY <1>1, ContractHolds, PTL

\* The contract the write paths are modelled with: a verdict of the adapter is
\* BrasilAPI's own, through every cache, retry and late fill.
THEOREM VerdictsAreTrue == Spec => []NoSilentPositive
<1>1. Contract => NoSilentPositive
  BY ContractImplies
<1>2. QED
  BY <1>1, ContractHolds, PTL

\* No answer of getCache is older than the TTL and the request that filled it.
THEOREM AnswersAreFresh == Spec => []AnswersFresh
<1>1. Contract => AnswersFresh
  BY ContractImplies
<1>2. QED
  BY <1>1, ContractHolds, PTL

-----------------------------------------------------------------------------
(* Without an outage *)

\* A slot is free, or its request is answered before it or its caller's time
\* is over.
Punctual(r) ==
  IF r.phase = "prompt" THEN r.left = r.limit /\ r.left > 0
  ELSE r.phase = "none" /\ ~r.waiting

NoOutageYet ==
  ~outage => /\ up
             /\ \A c \in Calls : Punctual(call[c])
             /\ breaker["cnpj"].state = "closed"

Undelayed == NoOutageYet /\ PendingCnpjNeedsOutage

\* What a step does while BrasilAPI has always been up.
LEMMA AskUndelayed ==
  ASSUME Contract, Undelayed, NEW c \in Calls, NEW l \in workload, Ask(c, l)
  PROVE  Undelayed'
<1> SUFFICES ASSUME ~outage' PROVE /\ up' /\ \A d \in Calls : Punctual(call'[d])
                                   /\ breaker'["cnpj"].state = "closed"
                                   /\ ~(answer'.outcome = "PENDING" /\ answer'.lookup.op = "cnpj")
  BY DEF Undelayed, NoOutageYet, PendingCnpjNeedsOutage
<1>1. ~outage /\ up' = up
  BY DEF Ask, AnswerFromCache, Reject, Request, CityFromCache, MalformedCity, World
<1>2. up /\ (\A d \in Calls : Punctual(call[d])) /\ breaker["cnpj"].state = "closed"
  BY <1>1 DEF Undelayed, NoOutageYet
<1>3. call \in [Calls -> Slot] /\ breaker \in [Breakers -> Circuit] /\ "cnpj" \in Breakers
  BY DEF Contract, CallsOK, BreakersOK, Breakers
<1>4. CASE AnswerFromCache(c, l)
  BY <1>1, <1>2, <1>4 DEF AnswerFromCache, Tell, Validated
<1>5. CASE Reject(c, l)
  BY <1>1, <1>2, <1>5 DEF Reject, Tell, Pending, Fires, Admits
<1>6. CASE Request(c, l)
  <2>1. \A d \in Calls : Punctual(call'[d])
    BY <1>2, <1>3, <1>6, BoundsType DEF Request, Set, Phase, Punctual
  <2>2. Fired(breaker[l.op]).state = breaker[l.op].state
    BY <1>3, WorkloadType, LookupFields DEF Fired, Circuit
  <2>3. breaker'["cnpj"].state = "closed"
    BY <1>2, <1>3, <1>6, <2>2 DEF Request, SetBreaker
  <2>4. QED
    BY <1>1, <1>2, <1>6, <2>1, <2>3 DEF Request, Silent, Tell, Nothing
<1>7. CASE CityFromCache(c, l)
  BY <1>1, <1>2, <1>3, <1>7 DEF CityFromCache, SetBreaker, Tell, Validated
<1>8. CASE MalformedCity(c, l)
  BY <1>1, <1>2, <1>3, <1>8 DEF MalformedCity, SetBreaker, Tell, Pending
<1>9. QED
  BY <1>4, <1>5, <1>6, <1>7, <1>8 DEF Ask

LEMMA ProgressUndelayed ==
  ASSUME Contract, Undelayed, NEW c \in Calls, Progress(c)
  PROVE  Undelayed'
<1> SUFFICES ASSUME ~outage' PROVE /\ up' /\ \A d \in Calls : Punctual(call'[d])
                                   /\ breaker'["cnpj"].state = "closed"
                                   /\ ~(answer'.outcome = "PENDING" /\ answer'.lookup.op = "cnpj")
  BY DEF Undelayed, NoOutageYet, PendingCnpjNeedsOutage
<1>1. ~outage /\ up' = up
  BY DEF Progress, Found, Missing, CnpjMissing, UfMissing, Refused, Transient, Retry,
         TimesOut, ActionFails, World
<1>2. up /\ (\A d \in Calls : Punctual(call[d])) /\ breaker["cnpj"].state = "closed"
  BY <1>1 DEF Undelayed, NoOutageYet
<1>3. call \in [Calls -> Slot] /\ breaker \in [Breakers -> Circuit] /\ "cnpj" \in Breakers
  BY DEF Contract, CallsOK, BreakersOK, Breakers
<1>4. Punctual(Idle)
  BY DEF Punctual, Idle
<1>5. ASSUME NEW a, ActionReturns(c, a), a.outcome # "PENDING"
      PROVE  /\ \A d \in Calls : Punctual(call'[d])
             /\ breaker'["cnpj"].state = "closed"
             /\ answer'.outcome # "PENDING"
  <2>1. \A d \in Calls : Punctual(call'[d])
    BY <1>2, <1>3, <1>4, <1>5 DEF ActionReturns, Set
  <2>2. breaker'["cnpj"].state = "closed"
    BY <1>2, <1>3, <1>5 DEF ActionReturns, SetBreaker, Succeeded
  <2>3. answer'.outcome # "PENDING"
    BY <1>5 DEF ActionReturns, Tell, Silent, Nothing
  <2>4. QED
    BY <2>1, <2>2, <2>3
<1>6. CASE Found(c)
  <2>1. QED
    BY <1>1, <1>2, <1>5, <1>6 DEF Found, Validated
<1>7. CASE Missing(c)
  <2>1. CASE Lookup(c).op = "cnpj"
    BY <1>1, <1>2, <1>5, <1>7, <2>1 DEF Missing, CnpjMissing, NotFound
  <2>2. CASE Lookup(c).op # "cnpj"
    <3>1. ActionFails(c)
      BY <1>7, <2>2 DEF Missing, UfMissing
    <3>2. \A d \in Calls : Punctual(call'[d])
      BY <1>2, <1>3, <1>4, <3>1 DEF ActionFails, Set
    <3>3. breaker'["cnpj"].state = "closed"
      BY <1>2, <1>3, <2>2, <3>1 DEF ActionFails, SetBreaker
    <3>4. ~(answer'.outcome = "PENDING" /\ answer'.lookup.op = "cnpj")
      BY <2>2, <3>1 DEF ActionFails, Tell, Silent, Nothing, Pending
    <3>5. QED
      BY <1>1, <1>2, <3>2, <3>3, <3>4
  <2>3. QED
    BY <2>1, <2>2
<1>8. call[c].phase \notin {"doubtful", "backoff"}
  BY <1>2 DEF Punctual
<1>9. ~TimesOut(c)
  BY <1>2, BoundsType DEF TimesOut, Punctual
<1>10. QED
  BY <1>6, <1>7, <1>8, <1>9 DEF Progress, Refused, Transient, Retry

LEMMA TickUndelayed == ASSUME Contract, Undelayed, Tick PROVE Undelayed'
<1> SUFFICES ASSUME ~outage' PROVE /\ up' /\ \A d \in Calls : Punctual(call'[d])
                                   /\ breaker'["cnpj"].state = "closed"
                                   /\ ~(answer'.outcome = "PENDING" /\ answer'.lookup.op = "cnpj")
  BY DEF Undelayed, NoOutageYet, PendingCnpjNeedsOutage
<1>1. ~outage /\ up' = up
  BY DEF Tick, World
<1>2. up /\ (\A d \in Calls : Punctual(call[d])) /\ breaker["cnpj"].state = "closed"
  BY <1>1 DEF Undelayed, NoOutageYet
<1>3. call \in [Calls -> Slot] /\ breaker \in [Breakers -> Circuit] /\ "cnpj" \in Breakers
  BY DEF Contract, CallsOK, BreakersOK, Breakers
<1>4. ASSUME NEW d \in Calls PROVE Punctual(call'[d])
  <2>1. call'[d] = [call[d] EXCEPT !.left = Less(@), !.limit = Less(@)]
    BY DEF Tick
  <2>2. call[d] \in Slot /\ Punctual(call[d])
    BY <1>2, <1>3
  <2>3. /\ call'[d].phase = call[d].phase /\ call'[d].waiting = call[d].waiting
        /\ call'[d].left = Less(call[d].left) /\ call'[d].limit = Less(call[d].limit)
    BY <2>1, <2>2 DEF Slot
  <2>4. call[d].phase = "prompt" => call[d].left # 1
    BY DEF Tick, Due
  <2>5. call[d].left \in Nat /\ call[d].limit \in Nat
    BY <2>2, BoundsType DEF Slot
  <2>6. QED
    BY <2>2, <2>3, <2>4, <2>5 DEF Punctual, Less
<1>5. breaker'["cnpj"].state = breaker["cnpj"].state
  BY <1>3 DEF Tick, Circuit
<1>6. QED
  BY <1>1, <1>2, <1>4, <1>5 DEF Tick, Silent, Tell, Nothing

LEMMA StepUndelayed ==
  ASSUME Contract, Undelayed, [Next]_vars
  PROVE  Undelayed'
<1> USE DEF Undelayed, NoOutageYet, PendingCnpjNeedsOutage
<1>1. ASSUME NEW c \in Calls, NEW l \in workload, Ask(c, l) PROVE Undelayed'
  BY <1>1, AskUndelayed
<1>2. ASSUME NEW c \in Calls, Progress(c) PROVE Undelayed'
  BY <1>2, ProgressUndelayed
<1>3. ASSUME NEW op \in Breakers, HalfOpen(op) PROVE Undelayed'
  <2>1. ~outage => op # "cnpj"
    BY <1>3 DEF HalfOpen
  <2>2. "cnpj" \in Breakers /\ breaker \in [Breakers -> Circuit]
    BY DEF Contract, BreakersOK, Breakers
  <2>3. QED
    BY <1>3, <2>1, <2>2 DEF HalfOpen, SetBreaker, Silent, Tell, Nothing, World
<1>4. CASE Tick
  BY <1>4, TickUndelayed
<1>5. CASE GoDown
  BY <1>5 DEF GoDown
<1>6. CASE ComeUp
  BY <1>6 DEF ComeUp, Silent, Tell, Nothing
<1>7. CASE UNCHANGED vars
  BY <1>7 DEF vars
<1>8. QED
  BY <1>1, <1>2, <1>3, <1>4, <1>5, <1>6, <1>7 DEF Next

\* Only an outage makes a CNPJ PENDING: fetchCnpj turns a 404 into a result, so
\* companies that do not exist never open the circuit for those that do.
THEOREM OnlyOutagesDelayCnpjs == Spec => []PendingCnpjNeedsOutage
<1>1. Init => Undelayed
  BY DEF Init, Undelayed, NoOutageYet, PendingCnpjNeedsOutage, Idle, Closed, Breakers,
         Punctual, Nothing
<1>2. Contract /\ Undelayed /\ [Next]_vars => Undelayed'
  BY StepUndelayed
<1>3. Undelayed => PendingCnpjNeedsOutage
  BY DEF Undelayed
<1>4. QED
  BY <1>1, <1>2, <1>3, ContractHolds, PTL DEF Spec
=============================================================================
