------------------------------ MODULE BrasilApi ------------------------------
(***************************************************************************)
(* BrasilApiAdapter: lookups of CNPJs and of the cities of a UF behind     *)
(* three circuit breakers, with retries, timeouts and two caches.          *)
(*                                                                         *)
(* A breaker answers its caller after Timeout, but the action it started   *)
(* keeps running: it retries, and may fill the cache of the UFs when       *)
(* nobody waits for it any more.  Time is discrete; every timer counts     *)
(* down to zero and acts before the next tick.                             *)
(*                                                                         *)
(* What BrasilAPI says of a key is a set of names: the cities of a UF, the *)
(* CNPJ itself if it is ATIVA.  opossum is modelled from its use here.     *)
(***************************************************************************)
EXTENDS Naturals, FiniteSets

CONSTANTS
  Calls,             \* lookups that may be under way at one time
  ActiveCnpjs, InactiveCnpjs, MissingCnpjs,
  KnownUfs, UnknownUfs,
  MalformedUfs,      \* two characters that are not letters
  Cities,            \* the cities of every known UF
  OtherCities,       \* cities of none
  Timeout,           \* HTTP_TIMEOUT_MS, also the breakers' timeout
  ResetTimeout, VolumeThreshold,
  TTL,               \* cacheTtlMs
  MaxAttempts,
  Backoff,           \* the first delay of withRetry
  MaxFires,          \* bound: calls a breaker admits in one rolling window
  NoLookup           \* nothing is looked up

Cnpjs == ActiveCnpjs \cup InactiveCnpjs \cup MissingCnpjs
Ufs == KnownUfs \cup UnknownUfs \cup MalformedUfs
Keys == Cnpjs \cup Ufs

ASSUME BrasilApiAssumption ==
  /\ {Timeout, ResetTimeout, VolumeThreshold, TTL, MaxAttempts, Backoff,
      MaxFires} \subseteq Nat \ {0}
  /\ Cnpjs \cap Ufs = {}
  /\ ActiveCnpjs \cap (InactiveCnpjs \cup MissingCnpjs) = {}
  /\ InactiveCnpjs \cap MissingCnpjs = {}
  /\ KnownUfs \cap (UnknownUfs \cup MalformedUfs) = {}
  /\ UnknownUfs \cap MalformedUfs = {}
  /\ Cities \cap OtherCities = {}

Breakers == {"cnpj", "city", "cities"}
Lookups ==
  [op : {"cnpj"}, key : Cnpjs]
    \cup [op : {"city"}, key : Ufs, city : Cities \cup OtherCities]
    \cup [op : {"cities"}, key : Ufs \ MalformedUfs]  \* ufParamSchema

\* Bound: the callers of a behaviour make two different lookups, which share
\* their breaker or their cache entry.
Workloads ==
  {W \in SUBSET Lookups :
     /\ Cardinality(W) = 2
     /\ \A l, m \in W : l.op = m.op \/ l.key = m.key}

VARIABLES
  workload,  \* lookups made in this behaviour
  call,      \* slot -> a lookup whose action is running, and its caller
  answer,    \* what a caller was told in the last step, if one was
  breaker,   \* operation -> its circuit
  cache,     \* key -> its entry
  up,        \* BrasilAPI answers in time
  outage     \* whether it ever did not

vars == <<workload, call, answer, breaker, cache, up, outage>>

Names == Cnpjs \cup Cities
NoEntry == [names |-> {}, left |-> 0, age |-> 0, known |-> FALSE]
Told == {"nothing", "VALIDATED", "REJECTED", "PENDING"}
Nothing == [lookup |-> NoLookup, outcome |-> "nothing", names |-> {}, age |-> 0]

\* Delay after the given attempt.
Delay(attempt) == Backoff * 2^(attempt - 1)

TypeOK ==
  /\ workload \in Workloads
  /\ call \in [Calls -> [lookup : Lookups \cup {NoLookup}, waiting : BOOLEAN, attempt : 1..MaxAttempts,
                         phase : {"none", "prompt", "doubtful", "backoff"},
                         left : Nat, limit : 0..Timeout]]
  /\ answer \in [lookup : Lookups \cup {NoLookup}, outcome : Told,
                 names : SUBSET Names, age : Nat]
  /\ breaker \in
       [Breakers -> [state : {"closed", "open", "halfOpen"}, pendingClose : BOOLEAN,
                     left : 0..ResetTimeout, fires : 0..MaxFires, failures : 0..MaxFires]]
  /\ cache \in [Keys -> [names : SUBSET Names, left : 0..TTL, age : Nat, known : BOOLEAN]]
  /\ {up, outage} \subseteq BOOLEAN

Idle == [lookup |-> NoLookup, waiting |-> FALSE, phase |-> "none", attempt |-> 1,
         left |-> 0, limit |-> 0]
Closed == [state |-> "closed", pendingClose |-> FALSE, left |-> 0,
           fires |-> 0, failures |-> 0]

Init ==
  /\ workload \in Workloads
  /\ call = [c \in Calls |-> Idle]
  /\ answer = Nothing
  /\ breaker = [b \in Breakers |-> Closed]
  /\ cache = [k \in Keys |-> NoEntry]
  /\ up = TRUE
  /\ outage = FALSE

-----------------------------------------------------------------------------
(* BrasilAPI *)

Exists(k) == k \in ActiveCnpjs \cup InactiveCnpjs \cup KnownUfs

\* What BrasilAPI says of a key it knows.
Listed(k) ==
  CASE k \in ActiveCnpjs -> {k}
    [] k \in KnownUfs -> Cities
    [] OTHER -> {}

\* The part of it the caller asked about: isActive, the city, the cities.
Asked(l, names) == IF l.op = "city" THEN names \cap {l.city} ELSE names

Validated(l, names, age) ==
  [lookup |-> l, outcome |-> "VALIDATED", names |-> Asked(l, names), age |-> age]

Pending(l) == [lookup |-> l, outcome |-> "PENDING", names |-> {}, age |-> 0]
NotFound(l) == [lookup |-> l, outcome |-> "REJECTED", names |-> {}, age |-> 0]

-----------------------------------------------------------------------------
(* The circuit breaker *)

Admits(b) == b.state = "closed" \/ b.pendingClose

Fired(b) == [b EXCEPT !.pendingClose = FALSE,
                      !.fires = IF b.state = "closed" THEN @ + 1 ELSE @]

Succeeded(b) ==
  IF b.state = "halfOpen"
  THEN [b EXCEPT !.state = "closed", !.pendingClose = FALSE] ELSE b

\* A failure opens the circuit when more than half of at least VolumeThreshold
\* calls failed, or when it was the trial.  The counts are not looked at again
\* before the circuit is closed, and by then the window has emptied.
Failed(b) ==
  LET failures == IF b.failures < MaxFires THEN b.failures + 1 ELSE b.failures
      trips == b.fires >= VolumeThreshold /\ 2 * failures > b.fires
  IN IF b.state = "closed" /\ ~trips THEN [b EXCEPT !.failures = failures]
     ELSE IF b.state = "open" THEN b
     ELSE [Closed EXCEPT !.state = "open", !.left = ResetTimeout]

-----------------------------------------------------------------------------
(* Caches *)

\* setCache
Stored(names, age) == [names |-> names, left |-> TTL, age |-> age, known |-> TRUE]

Put(k, names, age) == cache' = [cache EXCEPT ![k] = Stored(names, age)]

\* Variant of CityHit: an entry that is used starts its time anew.
CityHitRenews(k) == Put(k, cache[k].names, cache[k].age)

\* A cached list is not stored again.
CityHit(k) == UNCHANGED cache

-----------------------------------------------------------------------------
(* Lookups *)

Tell(a) == answer' = a
Silent == Tell(Nothing)
Set(c, r) == call' = [call EXCEPT ![c] = r]
SetBreaker(op, b) == breaker' = [breaker EXCEPT ![op] = b]
World == <<workload, up, outage>>

\* A caller takes a free slot.
MayAsk(c, l) == call[c] = Idle

\* getCnpjData and listCitiesByState look into the cache first, whatever the
\* circuit.
AnswerFromCache(c, l) ==
  /\ MayAsk(c, l)
  /\ l.op # "city"
  /\ cache[l.key].known
  /\ Tell(Validated(l, cache[l.key].names, cache[l.key].age))
  /\ UNCHANGED <<call, breaker, cache, World>>

\* Whether a lookup gets as far as its breaker.
Fires(c, l) ==
  /\ MayAsk(c, l)
  /\ l.op # "city" => ~cache[l.key].known

\* The fallback
Reject(c, l) ==
  /\ Fires(c, l)
  /\ ~Admits(breaker[l.op])
  /\ Tell(Pending(l))
  /\ UNCHANGED <<call, breaker, cache, World>>

\* The breaker takes the call.
Admit(c, l) ==
  /\ Fires(c, l)
  /\ Admits(breaker[l.op])
  /\ breaker[l.op].fires < MaxFires

Phase == IF up THEN "prompt" ELSE "doubtful"

Request(c, l) ==
  /\ Admit(c, l)
  /\ ~cache[l.key].known /\ l.key \notin MalformedUfs
  /\ Set(c, [lookup |-> l, waiting |-> TRUE, phase |-> Phase, attempt |-> 1,
             left |-> Timeout, limit |-> Timeout])
  /\ SetBreaker(l.op, Fired(breaker[l.op]))
  /\ Silent
  /\ UNCHANGED <<cache, World>>

\* fetchCityInState looks into the cache behind the breaker.
CityFromCache(c, l) ==
  /\ Admit(c, l)
  /\ l.op = "city" /\ cache[l.key].known
  /\ UNCHANGED call
  /\ SetBreaker(l.op, Succeeded(Fired(breaker[l.op])))
  /\ Tell(Validated(l, cache[l.key].names, cache[l.key].age))
  /\ CityHit(l.key)
  /\ UNCHANGED World

\* assertUf throws in the action.
MalformedCity(c, l) ==
  /\ Admit(c, l)
  /\ l.op = "city" /\ l.key \in MalformedUfs
  /\ UNCHANGED call
  /\ SetBreaker(l.op, Failed(Fired(breaker[l.op])))
  /\ Tell(Pending(l))
  /\ UNCHANGED <<cache, World>>

Requesting(c) == call[c].phase \in {"prompt", "doubtful"}
Lookup(c) == call[c].lookup

\* The action fails; its caller, unless it has timed out, gets the fallback.
ActionFails(c) ==
  /\ Set(c, Idle)
  /\ IF call[c].waiting
     THEN /\ SetBreaker(Lookup(c).op, Failed(breaker[Lookup(c).op]))
          /\ Tell(Pending(Lookup(c)))
     ELSE Silent /\ UNCHANGED breaker
  /\ UNCHANGED <<cache, World>>

\* The action returns a; a breaker that has timed out does not see it.
ActionReturns(c, a) ==
  /\ Set(c, Idle)
  /\ IF call[c].waiting
     THEN /\ SetBreaker(Lookup(c).op, Succeeded(breaker[Lookup(c).op]))
          /\ Tell(a)
     ELSE Silent /\ UNCHANGED breaker

\* Who stores a fetched value: fetchCityInState itself, whoever waits; for the
\* others their caller, once the breaker has answered.
Stores(c) == Lookup(c).op = "city" \/ call[c].waiting

\* 200; the value may be as old as the request.
Found(c) ==
  LET names == Listed(Lookup(c).key)
      age == Timeout - call[c].left
  IN /\ Requesting(c)
     /\ Exists(Lookup(c).key)
     /\ ActionReturns(c, Validated(Lookup(c), names, age))
     /\ IF Stores(c) THEN Put(Lookup(c).key, names, age) ELSE UNCHANGED cache
     /\ UNCHANGED World

\* Variant of CnpjMissing: a 404 is an error like any other.
CnpjMissingThrows(c) == ActionFails(c)

\* fetchCnpj turns a 404 into a result.
CnpjMissing(c) ==
  /\ ActionReturns(c, NotFound(Lookup(c)))
  /\ UNCHANGED <<cache, World>>

\* Variant of UfMissing: loadCities takes a 404 for an empty list.
UfMissingIsEmpty(c) ==
  /\ ActionReturns(c, Validated(Lookup(c), {}, 0))
  /\ UNCHANGED <<cache, World>>

\* loadCities does not.
UfMissing(c) == ActionFails(c)

\* 404 is not retried.
Missing(c) ==
  /\ Requesting(c)
  /\ ~Exists(Lookup(c).key)
  /\ IF Lookup(c).op = "cnpj" THEN CnpjMissing(c) ELSE UfMissing(c)

\* Another 4xx is not retried either.
Refused(c) ==
  /\ call[c].phase = "doubtful"
  /\ ActionFails(c)

\* Variant of GivesUp: one attempt too many.
GivesUpLate(c) == call[c].attempt > MaxAttempts

GivesUp(c) == call[c].attempt >= MaxAttempts

\* 5xx, a network error, or the HTTP timeout: withRetry waits, or throws.
Transient(c) ==
  /\ call[c].phase = "doubtful"
  /\ \/ GivesUp(c) /\ ActionFails(c)
     \/ /\ ~GivesUp(c)
        /\ Set(c, [call[c] EXCEPT !.phase = "backoff", !.left = Delay(call[c].attempt)])
        /\ Silent
        /\ UNCHANGED <<breaker, cache, World>>

Retry(c) ==
  /\ call[c].phase = "backoff"
  /\ call[c].left = 0
  /\ Set(c, [call[c] EXCEPT !.phase = Phase, !.left = Timeout, !.attempt = @ + 1])
  /\ Silent
  /\ UNCHANGED <<breaker, cache, World>>

\* The breaker's own timeout: the caller gets the fallback, the action goes on.
TimesOut(c) ==
  /\ call[c].waiting
  /\ call[c].limit = 0
  /\ Set(c, [call[c] EXCEPT !.waiting = FALSE])
  /\ SetBreaker(Lookup(c).op, Failed(breaker[Lookup(c).op]))
  /\ Tell(Pending(Lookup(c)))
  /\ UNCHANGED <<cache, World>>

-----------------------------------------------------------------------------
(* Time and the outside *)

\* After resetTimeout one call is let through.
HalfOpen(op) ==
  /\ breaker[op].state = "open"
  /\ breaker[op].left = 0
  /\ SetBreaker(op, [breaker[op] EXCEPT !.state = "halfOpen", !.pendingClose = TRUE])
  /\ Silent
  /\ UNCHANGED <<call, cache, World>>

\* A request sent while BrasilAPI is up is answered before it times out.
Due ==
  \/ \E c \in Calls :
       \/ call[c].waiting /\ call[c].limit = 0
       \/ call[c].phase \in {"doubtful", "backoff"} /\ call[c].left = 0
       \/ call[c].phase = "prompt" /\ call[c].left = 1
  \/ \E op \in Breakers : breaker[op].state = "open" /\ breaker[op].left = 0

Less(n) == IF n = 0 THEN 0 ELSE n - 1

\* An entry is valid up to and including its last instant; one that is not is
\* deleted when it is read, here at once.
Aged(entry) ==
  IF ~entry.known \/ entry.left = 0 THEN NoEntry
  ELSE [entry EXCEPT !.left = @ - 1, !.age = @ + 1]

\* The rolling windows of some breakers have emptied.
Tick ==
  /\ ~Due
  /\ call' = [c \in Calls |-> [call[c] EXCEPT !.left = Less(@), !.limit = Less(@)]]
  /\ Silent
  /\ cache' = [k \in Keys |-> Aged(cache[k])]
  /\ \E rolled \in SUBSET {l.op : l \in workload} :
       breaker' = [op \in Breakers |->
         [breaker[op] EXCEPT !.left = Less(@),
                             !.fires = IF op \in rolled THEN 0 ELSE @,
                             !.failures = IF op \in rolled THEN 0 ELSE @]]
  /\ UNCHANGED World

GoDown ==
  /\ up
  /\ up' = FALSE
  /\ outage' = TRUE
  /\ Silent
  /\ UNCHANGED <<workload, call, breaker, cache>>

ComeUp ==
  /\ ~up
  /\ up' = TRUE
  /\ Silent
  /\ UNCHANGED <<workload, call, breaker, cache, outage>>

Ask(c, l) ==
  \/ AnswerFromCache(c, l) \/ Reject(c, l)
  \/ Request(c, l) \/ CityFromCache(c, l) \/ MalformedCity(c, l)

Progress(c) ==
  Found(c) \/ Missing(c) \/ Refused(c) \/ Transient(c) \/ Retry(c) \/ TimesOut(c)

Next ==
  \/ \E c \in Calls, l \in workload : Ask(c, l)
  \/ \E c \in Calls : Progress(c)
  \/ \E op \in Breakers : HalfOpen(op)
  \/ Tick \/ GoDown \/ ComeUp

\* The event loop runs, timers fire, and time passes.
Fairness ==
  /\ \A c \in Calls : WF_vars(Progress(c))
  /\ \A op \in Breakers : WF_vars(HalfOpen(op))
  /\ WF_vars(Tick)

Spec == Init /\ [][Next]_vars
FairSpec == Spec /\ Fairness

-----------------------------------------------------------------------------
\* What BrasilAPI would answer itself.
Truth(l) ==
  IF Exists(l.key)
  THEN [outcome |-> "VALIDATED", names |-> Asked(l, Listed(l.key))]
  ELSE [outcome |-> "REJECTED", names |-> {}]

\* The contract the write paths are modelled with: a verdict is BrasilAPI's own
\* or it is PENDING.  No timeout, retry, open circuit, late fill or cache entry
\* shared by two operations makes another one of it.
NoSilentPositive ==
  answer.outcome \in {"VALIDATED", "REJECTED"} =>
    /\ answer.outcome = Truth(answer.lookup).outcome
    /\ answer.names = Truth(answer.lookup).names

\* No answer is older than the TTL and one request, although entries are filled
\* and read by two operations and filled by abandoned calls.
AnswersFresh == answer.age <= TTL + Timeout

\* If BrasilAPI has always answered in time, no CNPJ is PENDING: companies that
\* do not exist never open the circuit for those that do.
PendingCnpjNeedsOutage ==
  answer.outcome = "PENDING" /\ answer.lookup.op = "cnpj" => outage

\* README: PENDING is a timeout, a 5xx, the network or an open circuit, and a
\* city that is not in the UF is REJECTED.  It does not hold for a place in no
\* UF: the adapter throws the 404 on.
PendingPlaceNeedsOutage ==
  answer.outcome = "PENDING" /\ answer.lookup.op = "city" => outage

\* Once BrasilAPI stays up and only UFs that exist are asked for, PENDING
\* answers come to an end: every circuit finds its way back, whatever abandoned
\* calls still do to it.
PendingEnds ==
  <>[](/\ up
       /\ \A l \in {answer.lookup} \cup {Lookup(c) : c \in Calls} :
            l # NoLookup => l.key \notin UnknownUfs \cup MalformedUfs)
    => <>[](answer.outcome # "PENDING")
=============================================================================
