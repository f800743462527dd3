-------------------------- MODULE RevalidationJob --------------------------
(***************************************************************************)
(* PendingExternalValidationJob in several replicas: each tick takes the   *)
(* oldest batch of PENDING producers, then of PENDING farms, and           *)
(* revalidates one row after the other under a session advisory lock,      *)
(* while HTTP requests write and delete rows, BrasilAPI goes and comes     *)
(* back, and replicas crash.                                               *)
(*                                                                         *)
(* A row is reduced to what the job sees of it: PENDING, SETTLED (its      *)
(* status is VALIDATED or REJECTED) or DELETED.  ProducerRows and FarmRows *)
(* have the rest.  waiting stands for pending_at: a row that becomes or    *)
(* stays PENDING gets a new pending_at and so goes to the end.             *)
(***************************************************************************)
EXTENDS Naturals, Sequences, FiniteSets

CONSTANTS
  Replicas,          \* processes that run the job
  Producers, Farms,  \* rows
  BatchSize,         \* REVALIDATE_PENDING_BATCH_SIZE
  Poisoned,          \* rows whose revalidation always throws
  MaxFaults,         \* bound: crashes, failed queries, lost sessions, HTTP writes
  NoReplica          \* nobody holds the lock

Items == Producers \cup Farms
Kinds == {"producer", "farm"}
OfKind(k) == IF k = "producer" THEN Producers ELSE Farms
KindOf(i) == IF i \in Producers THEN "producer" ELSE "farm"

ASSUME JobAssumption ==
  /\ IsFiniteSet(Items)
  /\ Producers \cap Farms = {}
  /\ BatchSize \in Nat \ {0}
  /\ Poisoned \subseteq Items
  /\ MaxFaults \in Nat
  /\ NoReplica \notin Replicas

VARIABLES
  status,   \* row -> what the job sees of its validation status
  waiting,  \* table -> its PENDING rows by pending_at, oldest first
  healthy,  \* BrasilAPI answers
  running,  \* replica -> its flag
  pc,       \* replica -> where its tick is
  kind,     \* replica -> the table it works on
  batch,    \* replica -> ids still to do, the one in work first
  answer,   \* replica -> outcome of its last lookup
  lock,     \* row -> replica whose session holds its advisory lock
  dead,     \* replicas whose reserved connection was lost
  faults    \* how many of MaxFaults have happened

rows == <<status, waiting>>
tick == <<running, pc, kind, batch, answer>>
vars == <<rows, healthy, tick, lock, dead, faults>>

Outcomes == {"PENDING", "SETTLED"}

TypeOK ==
  /\ status \in [Items -> Outcomes \cup {"DELETED"}]
  /\ waiting \in [Kinds -> Seq(Items)]
  /\ healthy \in BOOLEAN
  /\ running \in [Replicas -> BOOLEAN]
  /\ pc \in [Replicas ->
       {"down", "idle", "listing", "next", "locked", "asked", "unlocking"}]
  /\ kind \in [Replicas -> Kinds]
  /\ batch \in [Replicas -> Seq(Items)]
  /\ \A r \in Replicas : Len(batch[r]) <= BatchSize
  /\ answer \in [Replicas -> Outcomes]
  /\ lock \in [Items -> Replicas \cup {NoReplica}]
  /\ dead \subseteq Replicas
  /\ faults \in 0..MaxFaults

\* seq is S in some order.
Lists(seq, S) ==
  /\ {seq[n] : n \in DOMAIN seq} = S
  /\ Len(seq) = Cardinality(S)

\* Every row is PENDING: BrasilAPI was down when they were written.
Init ==
  /\ status = [i \in Items |-> "PENDING"]
  /\ waiting \in [Kinds -> UNION {[1..n -> Items] : n \in 0..Cardinality(Items)}]
  /\ \A k \in Kinds : Lists(waiting[k], OfKind(k))
  /\ healthy = FALSE
  /\ running = [r \in Replicas |-> FALSE]
  /\ pc = [r \in Replicas |-> "idle"]
  /\ kind = [r \in Replicas |-> "producer"]
  /\ batch = [r \in Replicas |-> << >>]
  /\ answer = [r \in Replicas |-> "PENDING"]
  /\ lock = [i \in Items |-> NoReplica]
  /\ dead = {}
  /\ faults = 0

-----------------------------------------------------------------------------
Fault == faults < MaxFaults /\ faults' = faults + 1

\* The row a tick works on
Current(r) == Head(batch[r])

\* findPendingDocumentIds, findPendingTerritorialIds
Oldest(k) ==
  SubSeq(waiting[k], 1,
         IF Len(waiting[k]) < BatchSize THEN Len(waiting[k]) ELSE BatchSize)

\* seq without i, which occurs in it at most once
Without(seq, i) ==
  IF \E n \in 1..Len(seq) : seq[n] = i
  THEN LET n == CHOOSE n \in 1..Len(seq) : seq[n] = i
       IN  SubSeq(seq, 1, n - 1) \o SubSeq(seq, n + 1, Len(seq))
  ELSE seq

\* Variant of Requeued: pending_at is kept.
KeptInPlace(seq, i, s) == IF s = "PENDING" THEN seq ELSE Without(seq, i)

\* The PENDING rows of a table after i was written with status s: setting
\* PENDING sets pending_at to now.
Requeued(seq, i, s) ==
  Without(seq, i) \o (IF s = "PENDING" THEN <<i>> ELSE << >>)

Write(i, s) ==
  /\ status' = [status EXCEPT ![i] = s]
  /\ waiting' = [waiting EXCEPT ![KindOf(i)] = Requeued(@, i, s)]

Goto(r, step) == pc' = [pc EXCEPT ![r] = step]

\* setInterval fires and no tick is running.
Fire(r) ==
  /\ pc[r] # "down"
  /\ ~running[r]
  /\ running' = [running EXCEPT ![r] = TRUE]
  /\ kind' = [kind EXCEPT ![r] = "producer"]
  /\ Goto(r, "listing")
  /\ UNCHANGED <<rows, healthy, batch, answer, lock, dead, faults>>

\* setInterval fires while the last tick runs.
SkipTick(r) ==
  /\ pc[r] # "down"
  /\ running[r]
  /\ UNCHANGED vars

ListPending(r) ==
  /\ pc[r] = "listing"
  /\ batch' = [batch EXCEPT ![r] = Oldest(kind[r])]
  /\ Goto(r, "next")
  /\ UNCHANGED <<rows, healthy, running, kind, answer, lock, dead, faults>>

\* finally
EndTick(r) ==
  /\ running' = [running EXCEPT ![r] = FALSE]
  /\ Goto(r, "idle")

\* The query fails; the tick is over.
ListFails(r) ==
  /\ pc[r] = "listing"
  /\ Fault
  /\ EndTick(r)
  /\ UNCHANGED <<rows, healthy, kind, batch, answer, lock, dead>>

\* After the producers come the farms, then the tick is over.
BatchDone(r) ==
  /\ pc[r] = "next"
  /\ batch[r] = << >>
  /\ IF kind[r] = "producer"
     THEN /\ kind' = [kind EXCEPT ![r] = "farm"]
          /\ Goto(r, "listing")
          /\ UNCHANGED running
     ELSE EndTick(r) /\ UNCHANGED kind
  /\ UNCHANGED <<rows, healthy, batch, answer, lock, dead, faults>>

\* Variant of LockFree: the answer of pg_try_advisory_lock is not looked at.
LockIgnored(i) == TRUE

LockFree(i) == lock[i] = NoReplica

\* reserve and pg_try_advisory_lock
Claim(r) ==
  /\ pc[r] = "next"
  /\ batch[r] # << >>
  /\ LockFree(Current(r))
  /\ lock' = [lock EXCEPT ![Current(r)] = r]
  /\ Goto(r, "locked")
  /\ UNCHANGED <<rows, healthy, running, kind, batch, answer, dead, faults>>

\* claimed: false; the row is left to the replica that holds the lock.
NotClaimed(r) ==
  /\ pc[r] = "next"
  /\ batch[r] # << >>
  /\ ~LockFree(Current(r))
  /\ batch' = [batch EXCEPT ![r] = Tail(@)]
  /\ UNCHANGED <<rows, healthy, running, pc, kind, answer, lock, dead, faults>>

\* reserve or the lock query fails; the tick goes on with the next row.
ClaimFails(r) ==
  /\ pc[r] = "next"
  /\ batch[r] # << >>
  /\ Fault
  /\ batch' = [batch EXCEPT ![r] = Tail(@)]
  /\ UNCHANGED <<rows, healthy, running, pc, kind, answer, lock, dead>>

\* execute reads the row and asks BrasilAPI.  Whether the row is PENDING is not
\* checked again.
Ask(r) ==
  /\ pc[r] = "locked"
  /\ status[Current(r)] # "DELETED"
  /\ Current(r) \notin Poisoned
  /\ answer' = [answer EXCEPT ![r] = IF healthy THEN "SETTLED" ELSE "PENDING"]
  /\ Goto(r, "asked")
  /\ UNCHANGED <<rows, healthy, running, kind, batch, lock, dead, faults>>

\* execute writes the whole row, deleted_at included.
Store(r) ==
  /\ pc[r] = "asked"
  /\ Write(Current(r), answer[r])
  /\ Goto(r, "unlocking")
  /\ UNCHANGED <<healthy, running, kind, batch, answer, lock, dead, faults>>

\* Variant of Thrown: an exception leaves withSessionAdvisoryLock at once.
ThrownPastUnlock(r) ==
  /\ batch' = [batch EXCEPT ![r] = Tail(@)]
  /\ Goto(r, "next")

\* An exception of the callback still unlocks.
Thrown(r) == Goto(r, "unlocking") /\ UNCHANGED batch

\* NotFoundException, a row that cannot be decrypted, a failed statement
Throw(r) ==
  /\ \/ /\ pc[r] = "locked"
        /\ status[Current(r)] = "DELETED" \/ Current(r) \in Poisoned
        /\ UNCHANGED faults
     \/ /\ pc[r] \in {"locked", "asked"}
        /\ Fault
  /\ Thrown(r)
  /\ UNCHANGED <<rows, healthy, running, kind, answer, lock, dead>>

\* pg_advisory_unlock (of this session's own lock) and release; the locals of
\* the callback are gone.
Unlock(r) ==
  /\ pc[r] = "unlocking"
  /\ lock' = IF lock[Current(r)] = r
             THEN [lock EXCEPT ![Current(r)] = NoReplica] ELSE lock
  /\ dead' = dead \ {r}
  /\ batch' = [batch EXCEPT ![r] = Tail(@)]
  /\ answer' = [answer EXCEPT ![r] = "PENDING"]
  /\ Goto(r, "next")
  /\ UNCHANGED <<rows, healthy, running, kind, faults>>

\* The process dies: its memory is gone and its sessions end.
Crash(r) ==
  /\ pc[r] # "down"
  /\ Fault
  /\ Goto(r, "down")
  /\ running' = [running EXCEPT ![r] = FALSE]
  /\ batch' = [batch EXCEPT ![r] = << >>]
  /\ answer' = [answer EXCEPT ![r] = "PENDING"]
  /\ kind' = [kind EXCEPT ![r] = "producer"]
  /\ lock' = [i \in Items |-> IF lock[i] = r THEN NoReplica ELSE lock[i]]
  /\ dead' = dead \ {r}
  /\ UNCHANGED <<rows, healthy>>

Restart(r) ==
  /\ pc[r] = "down"
  /\ Goto(r, "idle")
  /\ UNCHANGED <<rows, healthy, running, kind, batch, answer, lock, dead, faults>>

\* The reserved connection is lost; the callback, on another one, goes on.
SessionDies(r) ==
  /\ pc[r] \in {"locked", "asked"}
  /\ r \notin dead
  /\ Fault
  /\ dead' = dead \cup {r}
  /\ lock' = [lock EXCEPT ![Current(r)] = NoReplica]
  /\ UNCHANGED <<rows, healthy, tick>>

-----------------------------------------------------------------------------
\* A PUT stores what BrasilAPI says of the new document or place, or PENDING.
Put(i) ==
  /\ status[i] # "DELETED"
  /\ Fault
  /\ \E s \in Outcomes : Write(i, s)
  /\ UNCHANGED <<healthy, tick, lock, dead>>

\* A DELETE takes the row out of the job's sight.
Delete(i) ==
  /\ status[i] # "DELETED"
  /\ Fault
  /\ Write(i, "DELETED")
  /\ UNCHANGED <<healthy, tick, lock, dead>>

\* BrasilAPI fails or recovers.
Toggle ==
  /\ healthy' = ~healthy
  /\ UNCHANGED <<rows, tick, lock, dead, faults>>

Step(r) ==
  \/ Fire(r) \/ ListPending(r) \/ BatchDone(r) \/ Claim(r) \/ NotClaimed(r)
  \/ Ask(r) \/ Store(r) \/ Unlock(r) \/ Restart(r)

Next ==
  \/ \E r \in Replicas :
       \/ Step(r) \/ Throw(r) \/ SkipTick(r)
       \/ ListFails(r) \/ ClaimFails(r) \/ Crash(r) \/ SessionDies(r)
  \/ \E i \in Items : Put(i) \/ Delete(i)
  \/ Toggle

\* The timer fires again and again, every await ends (statements and lookups
\* time out), and a dead replica is restarted.
Fairness == \A r \in Replicas : WF_vars(Step(r) \/ Throw(r))

Spec == Init /\ [][Next]_vars
FairSpec == Spec /\ Fairness

-----------------------------------------------------------------------------
\* r revalidates i.
Revalidates(r, i) == pc[r] \in {"locked", "asked"} /\ Current(r) = i

\* No two replicas revalidate one row at one time, although all of them list
\* the same rows and an id stays in a batch long after it was listed; unless
\* Postgres has dropped the lock with the connection of one of them.
OneReplicaPerItem ==
  \A r, s \in Replicas \ dead : \A i \in Items :
    Revalidates(r, i) /\ Revalidates(s, i) => r = s

\* A lock is held only by the replica that is revalidating the row or about to
\* unlock it: no exception and no crash leaves one behind.
LocksAreReleased ==
  \A i \in Items :
    lock[i] # NoReplica =>
      /\ pc[lock[i]] \in {"locked", "asked", "unlocking"}
      /\ Current(lock[i]) = i

\* Rows that always fail keep their place at the head of the queue, but as long
\* as they are fewer than a batch, every PENDING row is revalidated again and
\* again until it is no longer PENDING.
EveryPendingIsTried ==
  \A i \in Items :
    status[i] = "PENDING" ~>
      (status[i] # "PENDING" \/ \E r \in Replicas : Revalidates(r, i))

\* Once BrasilAPI stays up, every row that can be revalidated is settled for
\* good: no replica with a stale batch or a late answer makes it PENDING again.
AllSettle ==
  <>[]healthy =>
    \A i \in Items \ Poisoned : <>[](status[i] # "PENDING")
============================================================================
