----------------------- MODULE RevalidationJobProofs -----------------------
(***************************************************************************)
(* Mutual exclusion of the job for any number of replicas, rows and        *)
(* faults.                                                                 *)
(***************************************************************************)
EXTENDS RevalidationJob, FiniteSetTheorems, TLAPS

\* Functions keep their domains.
Shapes ==
  /\ pc = [r \in Replicas |-> pc[r]]
  /\ batch = [r \in Replicas |-> batch[r]]
  /\ running = [r \in Replicas |-> running[r]]
  /\ lock \in [Items -> Replicas \cup {NoReplica}]

\* The flag is up during the whole tick, so no second tick starts over it.
FlagCoversTick ==
  \A r \in Replicas : pc[r] \notin {"down", "idle"} => running[r]

\* A replica that revalidates a row over a living connection holds its lock.
RevalidatorsHoldLock ==
  \A r \in Replicas \ dead : \A i \in Items : Revalidates(r, i) => lock[i] = r

IInv == Shapes /\ FlagCoversTick /\ RevalidatorsHoldLock /\ LocksAreReleased

\* A step of r that neither takes nor gives back a lock, outside the part of the
\* tick that holds one
OutsideLock(r) ==
  /\ pc[r] \notin {"locked", "asked", "unlocking"}
  /\ pc'[r] \notin {"locked", "asked"}
  /\ pc'[r] \notin {"down", "idle"} => running'[r]
  /\ pc' = [pc EXCEPT ![r] = pc'[r]]
  /\ running' = [running EXCEPT ![r] = running'[r]]
  /\ batch' = [batch EXCEPT ![r] = batch'[r]]
  /\ UNCHANGED <<lock, dead>>

LEMMA OutsideLockSafe ==
  ASSUME IInv, NEW r \in Replicas, OutsideLock(r)
  PROVE  IInv'
<1>0. Shapes /\ FlagCoversTick /\ RevalidatorsHoldLock /\ LocksAreReleased
  BY DEF IInv
<1>1. Shapes'
  BY <1>0 DEF OutsideLock, Shapes
<1>2. \A s \in Replicas \ {r} :
        pc'[s] = pc[s] /\ batch'[s] = batch[s] /\ running'[s] = running[s]
  BY <1>0 DEF OutsideLock, Shapes
<1>3. FlagCoversTick'
  BY <1>0, <1>2 DEF OutsideLock, FlagCoversTick
<1>4. RevalidatorsHoldLock'
  BY <1>0, <1>2 DEF OutsideLock, RevalidatorsHoldLock, Revalidates, Current
<1>5. LocksAreReleased'
  BY <1>0, <1>2 DEF OutsideLock, LocksAreReleased, Current, Shapes
<1> QED
  BY <1>1, <1>3, <1>4, <1>5 DEF IInv

\* The steps before and after a row's turn
LEMMA BetweenRows ==
  ASSUME IInv, NEW r \in Replicas,
         \/ Fire(r) \/ ListPending(r) \/ ListFails(r) \/ BatchDone(r)
         \/ NotClaimed(r) \/ ClaimFails(r) \/ Restart(r)
  PROVE  IInv'
<1>0. Shapes /\ FlagCoversTick
  BY DEF IInv
<1>1. CASE Fire(r)
  <2>1. pc[r] = "idle"
    BY <1>0, <1>1 DEF Fire, FlagCoversTick
  <2> QED
    BY <1>0, <1>1, <2>1, OutsideLockSafe DEF OutsideLock, Fire, Goto, Shapes
<1>2. CASE ListPending(r) \/ NotClaimed(r) \/ ClaimFails(r)
  <2>1. pc[r] \in {"listing", "next"} /\ running[r]
    BY <1>0, <1>2 DEF ListPending, NotClaimed, ClaimFails, FlagCoversTick
  <2>2. pc' = [pc EXCEPT ![r] = "next"]
    BY <1>0, <1>2 DEF ListPending, NotClaimed, ClaimFails, Goto, Shapes
  <2>3. batch' = [batch EXCEPT ![r] = batch'[r]]
    BY <1>0, <1>2 DEF ListPending, NotClaimed, ClaimFails, Shapes
  <2>4. UNCHANGED <<running, lock, dead>>
    BY <1>2 DEF ListPending, NotClaimed, ClaimFails
  <2> QED
    BY <1>0, <2>1, <2>2, <2>3, <2>4, OutsideLockSafe DEF OutsideLock, Shapes
<1>3. CASE ListFails(r)
  BY <1>0, <1>3, OutsideLockSafe DEF OutsideLock, ListFails, EndTick, Goto, Shapes
<1>4. CASE BatchDone(r)
  <2>1. pc[r] = "next" /\ running[r]
    BY <1>0, <1>4 DEF BatchDone, FlagCoversTick
  <2>2. CASE kind[r] = "producer"
    BY <1>0, <1>4, <2>1, <2>2, OutsideLockSafe DEF OutsideLock, BatchDone, Goto, Shapes
  <2>3. CASE kind[r] # "producer"
    BY <1>0, <1>4, <2>1, <2>3, OutsideLockSafe
    DEF OutsideLock, BatchDone, EndTick, Goto, Shapes
  <2> QED
    BY <2>2, <2>3
<1>5. CASE Restart(r)
  BY <1>0, <1>5, OutsideLockSafe DEF OutsideLock, Restart, Goto, Shapes
<1> QED
  BY <1>1, <1>2, <1>3, <1>4, <1>5

\* A row's turn: claim, lookup, write or exception, unlock
LEMMA DuringRow ==
  ASSUME IInv, NEW r \in Replicas,
         Claim(r) \/ Ask(r) \/ Store(r) \/ Throw(r) \/ Unlock(r)
  PROVE  IInv'
<1>0. Shapes /\ FlagCoversTick /\ RevalidatorsHoldLock /\ LocksAreReleased
  BY DEF IInv
<1>1. CASE Claim(r)
  <2>1. /\ pc[r] = "next"
        /\ pc' = [pc EXCEPT ![r] = "locked"]
        /\ lock[Current(r)] = NoReplica
        /\ lock' = [lock EXCEPT ![Current(r)] = r]
        /\ UNCHANGED <<batch, dead, running>>
    BY <1>1 DEF Claim, LockFree, Goto
  <2>2. Shapes' /\ FlagCoversTick'
    BY <1>0, <2>1 DEF Shapes, FlagCoversTick
  <2>3. RevalidatorsHoldLock'
    BY <1>0, <2>1, JobAssumption
    DEF Shapes, RevalidatorsHoldLock, Revalidates, Current
  <2>4. LocksAreReleased'
    BY <1>0, <2>1, JobAssumption DEF Shapes, LocksAreReleased, Current
  <2> QED
    BY <2>2, <2>3, <2>4 DEF IInv
<1>2. CASE Ask(r) \/ Store(r) \/ Throw(r)
  <2>1. PICK step \in {"asked", "unlocking"} : pc' = [pc EXCEPT ![r] = step]
    BY <1>2 DEF Ask, Store, Throw, Thrown, Goto
  <2>2. /\ pc[r] \in {"locked", "asked"}
        /\ UNCHANGED <<batch, lock, dead, running>>
    BY <1>2 DEF Ask, Store, Throw, Thrown
  <2>3. Shapes' /\ FlagCoversTick'
    BY <1>0, <2>1, <2>2 DEF Shapes, FlagCoversTick
  <2>4. RevalidatorsHoldLock'
    BY <1>0, <2>1, <2>2 DEF Shapes, RevalidatorsHoldLock, Revalidates, Current
  <2>5. LocksAreReleased'
    BY <1>0, <2>1, <2>2 DEF Shapes, LocksAreReleased, Current
  <2> QED
    BY <2>3, <2>4, <2>5 DEF IInv
<1>3. CASE Unlock(r)
  <2>1. /\ pc[r] = "unlocking"
        /\ pc' = [pc EXCEPT ![r] = "next"]
        /\ batch' = [batch EXCEPT ![r] = Tail(@)]
        /\ lock' = IF lock[Current(r)] = r
                   THEN [lock EXCEPT ![Current(r)] = NoReplica] ELSE lock
        /\ dead' = dead \ {r}
        /\ UNCHANGED running
    BY <1>3 DEF Unlock, Goto
  <2>2. Shapes' /\ FlagCoversTick'
    BY <1>0, <2>1 DEF Shapes, FlagCoversTick
  <2>3. \A s \in Replicas \ {r} : pc'[s] = pc[s] /\ batch'[s] = batch[s]
    BY <1>0, <2>1 DEF Shapes
  <2>4. pc'[r] = "next"
    BY <1>0, <2>1 DEF Shapes
  <2>5. \A i \in Items : lock'[i] = IF lock[i] = r THEN NoReplica ELSE lock[i]
    BY <1>0, <2>1, JobAssumption DEF Shapes, LocksAreReleased
  <2>6. RevalidatorsHoldLock'
    BY <1>0, <2>1, <2>3, <2>4, <2>5 DEF RevalidatorsHoldLock, Revalidates, Current
  <2>7. LocksAreReleased'
    BY <1>0, <2>1, <2>3, <2>5, JobAssumption DEF Shapes, LocksAreReleased, Current
  <2> QED
    BY <2>2, <2>6, <2>7 DEF IInv
<1> QED
  BY <1>1, <1>2, <1>3

\* A process or a connection dies.
LEMMA Deaths ==
  ASSUME IInv, NEW r \in Replicas, Crash(r) \/ SessionDies(r)
  PROVE  IInv'
<1>0. Shapes /\ FlagCoversTick /\ RevalidatorsHoldLock /\ LocksAreReleased
  BY DEF IInv
<1>1. CASE Crash(r)
  <2>1. /\ pc' = [pc EXCEPT ![r] = "down"]
        /\ running' = [running EXCEPT ![r] = FALSE]
        /\ batch' = [batch EXCEPT ![r] = << >>]
        /\ lock' = [i \in Items |-> IF lock[i] = r THEN NoReplica ELSE lock[i]]
        /\ dead' = dead \ {r}
    BY <1>1 DEF Crash, Goto
  <2>2. Shapes' /\ FlagCoversTick'
    BY <1>0, <2>1 DEF Shapes, FlagCoversTick
  <2>3. \A s \in Replicas \ {r} : pc'[s] = pc[s] /\ batch'[s] = batch[s]
    BY <1>0, <2>1 DEF Shapes
  <2>4. pc'[r] = "down"
    BY <1>0, <2>1 DEF Shapes
  <2>5. RevalidatorsHoldLock'
    BY <1>0, <2>1, <2>3, <2>4 DEF RevalidatorsHoldLock, Revalidates, Current
  <2>6. LocksAreReleased'
    BY <1>0, <2>1, <2>3 DEF Shapes, LocksAreReleased, Current
  <2> QED
    BY <2>2, <2>5, <2>6 DEF IInv
<1>2. CASE SessionDies(r)
  <2>1. /\ pc[r] \in {"locked", "asked"}
        /\ r \notin dead
        /\ dead' = dead \cup {r}
        /\ lock' = [lock EXCEPT ![Current(r)] = NoReplica]
        /\ UNCHANGED <<pc, batch, running>>
    BY <1>2 DEF SessionDies, tick
  <2>2. Shapes' /\ FlagCoversTick'
    BY <1>0, <2>1 DEF Shapes, FlagCoversTick
  <2>3. Current(r) \in Items => lock[Current(r)] = r
    BY <1>0, <2>1 DEF RevalidatorsHoldLock, Revalidates
  <2>4. \A i \in Items : lock'[i] = lock[i] \/ (lock[i] = r /\ lock'[i] = NoReplica)
    BY <1>0, <2>1, <2>3 DEF Shapes
  <2>5. RevalidatorsHoldLock'
    BY <1>0, <2>1, <2>4 DEF RevalidatorsHoldLock, Revalidates, Current
  <2>6. LocksAreReleased'
    BY <1>0, <2>1, <2>4 DEF LocksAreReleased, Current
  <2> QED
    BY <2>2, <2>5, <2>6 DEF IInv
<1> QED
  BY <1>1, <1>2

\* IInv is inductive.
LEMMA IInvHolds == Spec => []IInv
<1>1. Init => IInv
  BY DEF Init, IInv, Shapes, FlagCoversTick, RevalidatorsHoldLock, LocksAreReleased,
         Revalidates
<1>2. IInv /\ [Next]_vars => IInv'
  <2> SUFFICES ASSUME IInv, [Next]_vars PROVE IInv'
    OBVIOUS
  <2>1. CASE UNCHANGED <<pc, batch, running, lock, dead>>
    BY <2>1 DEF IInv, Shapes, FlagCoversTick, RevalidatorsHoldLock, LocksAreReleased,
                Revalidates, Current
  <2>2. ASSUME NEW r \in Replicas,
               \/ Step(r) \/ Throw(r) \/ SkipTick(r) \/ ListFails(r)
               \/ ClaimFails(r) \/ Crash(r) \/ SessionDies(r)
        PROVE  IInv'
    <3>1. CASE SkipTick(r)
      BY <2>1, <3>1 DEF SkipTick, vars, tick
    <3> QED
      BY <2>2, <3>1, BetweenRows, DuringRow, Deaths DEF Step
  <2>3. CASE (\E i \in Items : Put(i) \/ Delete(i)) \/ Toggle \/ UNCHANGED vars
    BY <2>1, <2>3 DEF Put, Delete, Toggle, vars, tick
  <2> QED
    BY <2>2, <2>3 DEF Next
<1> QED
  BY <1>1, <1>2, PTL DEF Spec

-----------------------------------------------------------------------------
\* withSessionAdvisoryLock keeps the job's replicas off each other's rows, as
\* long as their connections live.
THEOREM MutualExclusion == Spec => []OneReplicaPerItem
<1>1. IInv => OneReplicaPerItem
  BY DEF IInv, RevalidatorsHoldLock, OneReplicaPerItem
<1> QED
  BY <1>1, IInvHolds, PTL

\* No exception, crash or lost connection leaves a lock behind.
THEOREM NoLockLeaks == Spec => []LocksAreReleased
<1>1. IInv => LocksAreReleased
  BY DEF IInv
<1> QED
  BY <1>1, IInvHolds, PTL

-----------------------------------------------------------------------------
(* Type correctness.  A replica at work on a row has the row's id at the   *)
(* head of its batch.                                                      *)

AtWork(r) == pc[r] \in {"locked", "asked", "unlocking"}

WorkInHand == \A r \in Replicas : AtWork(r) => batch[r] # << >>

JobTypes == TypeOK /\ WorkInHand

\* What a write leaves of a queue is a queue.
LEMMA RequeuedType ==
  ASSUME NEW seq \in Seq(Items), NEW i \in Items, NEW s
  PROVE  Requeued(seq, i, s) \in Seq(Items)
<1>1. Without(seq, i) \in Seq(Items)
  <2>1. CASE \E n \in 1..Len(seq) : seq[n] = i
    <3> DEFINE n == CHOOSE n \in 1..Len(seq) : seq[n] = i
    <3>1. n \in 1..Len(seq)
      BY <2>1
    <3>2. /\ SubSeq(seq, 1, n - 1) \in Seq(Items)
          /\ SubSeq(seq, n + 1, Len(seq)) \in Seq(Items)
      <4> HIDE DEF n
      <4> QED
        BY <3>1
    <3>3. Without(seq, i) = SubSeq(seq, 1, n - 1) \o SubSeq(seq, n + 1, Len(seq))
      BY <2>1 DEF Without
    <3> HIDE DEF n
    <3> QED
      BY <3>2, <3>3
  <2>2. CASE ~\E n \in 1..Len(seq) : seq[n] = i
    BY <2>2 DEF Without
  <2> QED
    BY <2>1, <2>2
<1>2. <<i>> \in Seq(Items) /\ << >> \in Seq(Items)
  OBVIOUS
<1> QED
  BY <1>1, <1>2 DEF Requeued

\* A batch is at most BatchSize ids.
LEMMA OldestType ==
  ASSUME NEW k, waiting[k] \in Seq(Items)
  PROVE  Oldest(k) \in Seq(Items) /\ Len(Oldest(k)) <= BatchSize
BY JobAssumption DEF Oldest

\* Writing a row keeps the types of the tables.
LEMMA WriteType ==
  ASSUME TypeOK, NEW i \in Items, NEW s \in Outcomes \cup {"DELETED"}, Write(i, s)
  PROVE  /\ status' \in [Items -> Outcomes \cup {"DELETED"}]
         /\ waiting' \in [Kinds -> Seq(Items)]
<1>1. KindOf(i) \in Kinds
  BY DEF KindOf, Kinds
<1>2. waiting[KindOf(i)] \in Seq(Items)
  BY <1>1 DEF TypeOK
<1>3. Requeued(waiting[KindOf(i)], i, s) \in Seq(Items)
  BY <1>2, RequeuedType
<1> QED
  BY <1>1, <1>3 DEF Write, TypeOK

\* A fault keeps the count within its bound.
LEMMA FaultType ==
  ASSUME TypeOK, Fault
  PROVE  faults' \in 0..MaxFaults
BY JobAssumption DEF TypeOK, Fault

\* The rest of a batch is a batch.
LEMMA TailType ==
  ASSUME TypeOK, NEW r \in Replicas, batch[r] # << >>
  PROVE  /\ Current(r) \in Items
         /\ Tail(batch[r]) \in Seq(Items)
         /\ Len(Tail(batch[r])) <= BatchSize
<1>1. batch[r] \in Seq(Items) /\ Len(batch[r]) <= BatchSize
  BY DEF TypeOK
<1>2. Len(Tail(batch[r])) = Len(batch[r]) - 1 /\ Len(batch[r]) \in Nat
  BY <1>1
<1> QED
  BY <1>1, <1>2, JobAssumption DEF Current

\* A step of one replica that touches no table and keeps the shapes of what it
\* changes
LEMMA TickType ==
  ASSUME JobTypes, NEW r \in Replicas,
         NEW b \in Seq(Items), Len(b) <= BatchSize,
         NEW step \in {"down", "idle", "listing", "next", "locked", "asked", "unlocking"},
         step \in {"locked", "asked", "unlocking"} => b # << >>,
         batch' = [batch EXCEPT ![r] = b],
         pc' = [pc EXCEPT ![r] = step]
  PROVE  /\ batch' \in [Replicas -> Seq(Items)]
         /\ \A s \in Replicas : Len(batch'[s]) <= BatchSize
         /\ pc' \in [Replicas ->
              {"down", "idle", "listing", "next", "locked", "asked", "unlocking"}]
         /\ WorkInHand'
<1>1. /\ batch \in [Replicas -> Seq(Items)]
      /\ pc \in [Replicas ->
           {"down", "idle", "listing", "next", "locked", "asked", "unlocking"}]
      /\ \A s \in Replicas : Len(batch[s]) <= BatchSize
      /\ WorkInHand
  BY DEF JobTypes, TypeOK
<1>2. \A s \in Replicas : /\ batch'[s] = IF s = r THEN b ELSE batch[s]
                          /\ pc'[s] = IF s = r THEN step ELSE pc[s]
  BY <1>1
<1>3. WorkInHand'
  BY <1>1, <1>2 DEF WorkInHand, AtWork
<1> QED
  BY <1>1, <1>2, <1>3

\* A replica's turn between two rows
LEMMA BetweenRowsType ==
  ASSUME JobTypes, NEW r \in Replicas,
         \/ Fire(r) \/ ListPending(r) \/ ListFails(r) \/ BatchDone(r)
         \/ NotClaimed(r) \/ ClaimFails(r) \/ Restart(r)
  PROVE  JobTypes'
<1>0. TypeOK
  BY DEF JobTypes
<1> USE DEF Goto
<1>1. batch[r] \in Seq(Items) /\ Len(batch[r]) <= BatchSize
  BY <1>0 DEF TypeOK
<1>2. batch = [batch EXCEPT ![r] = batch[r]]
  BY <1>0 DEF TypeOK
<1>3. kind[r] \in Kinds /\ waiting[kind[r]] \in Seq(Items)
  BY <1>0 DEF TypeOK
<1>4. /\ batch' \in [Replicas -> Seq(Items)]
      /\ \A s \in Replicas : Len(batch'[s]) <= BatchSize
      /\ pc' \in [Replicas ->
           {"down", "idle", "listing", "next", "locked", "asked", "unlocking"}]
      /\ WorkInHand'
  <2>1. CASE Fire(r) \/ Restart(r) \/ ListFails(r) \/ BatchDone(r)
    <3>1. PICK step \in {"idle", "listing"} : pc' = [pc EXCEPT ![r] = step]
      BY <2>1 DEF Fire, Restart, ListFails, BatchDone, EndTick
    <3>2. batch' = [batch EXCEPT ![r] = batch[r]]
      BY <2>1, <1>2 DEF Fire, Restart, ListFails, BatchDone
    <3> QED
      BY <1>1, <3>1, <3>2, TickType
  <2>2. CASE ListPending(r)
    <3>1. /\ pc' = [pc EXCEPT ![r] = "next"]
          /\ batch' = [batch EXCEPT ![r] = Oldest(kind[r])]
      BY <2>2 DEF ListPending
    <3> QED
      BY <1>3, <3>1, OldestType, TickType
  <2>3. CASE NotClaimed(r) \/ ClaimFails(r)
    <3>1. /\ pc[r] = "next" /\ batch[r] # << >>
          /\ UNCHANGED pc
          /\ batch' = [batch EXCEPT ![r] = Tail(batch[r])]
      BY <2>3 DEF NotClaimed, ClaimFails
    <3>2. pc' = [pc EXCEPT ![r] = "next"]
      BY <1>0, <3>1 DEF TypeOK
    <3> QED
      BY <1>0, <3>1, <3>2, TailType, TickType
  <2> QED
    BY <2>1, <2>2, <2>3
<1>5. /\ running' \in [Replicas -> BOOLEAN]
      /\ kind' \in [Replicas -> Kinds]
  BY <1>0 DEF TypeOK, Kinds, Fire, ListPending, ListFails, BatchDone, NotClaimed,
              ClaimFails, Restart, EndTick
<1>6. UNCHANGED <<status, waiting, healthy, answer, lock, dead>>
  BY DEF rows, Fire, ListPending, ListFails, BatchDone, NotClaimed, ClaimFails, Restart
<1>7. UNCHANGED faults \/ Fault
  BY DEF Fire, ListPending, ListFails, BatchDone, NotClaimed, ClaimFails, Restart
<1>8. faults' \in 0..MaxFaults
  BY <1>0, <1>7, FaultType DEF TypeOK
<1> QED
  BY <1>0, <1>4, <1>5, <1>6, <1>8 DEF JobTypes, TypeOK

\* A row's turn
LEMMA DuringRowType ==
  ASSUME JobTypes, NEW r \in Replicas,
         Claim(r) \/ Ask(r) \/ Store(r) \/ Throw(r) \/ Unlock(r)
  PROVE  JobTypes'
<1>0. TypeOK /\ WorkInHand
  BY DEF JobTypes
<1> USE DEF Goto
<1>1. batch[r] \in Seq(Items) /\ Len(batch[r]) <= BatchSize
  BY <1>0 DEF TypeOK
<1>2. batch[r] # << >>
  BY <1>0 DEF WorkInHand, AtWork, Claim, Ask, Store, Throw, Unlock
<1>3. batch = [batch EXCEPT ![r] = batch[r]]
  BY <1>0 DEF TypeOK
<1>4. Current(r) \in Items
  BY <1>0, <1>2, TailType
<1>5. /\ batch' \in [Replicas -> Seq(Items)]
      /\ \A s \in Replicas : Len(batch'[s]) <= BatchSize
      /\ pc' \in [Replicas ->
           {"down", "idle", "listing", "next", "locked", "asked", "unlocking"}]
      /\ WorkInHand'
  <2>1. CASE Claim(r) \/ Ask(r) \/ Store(r) \/ Throw(r)
    <3>1. PICK step \in {"locked", "asked", "unlocking"} : pc' = [pc EXCEPT ![r] = step]
      BY <2>1 DEF Claim, Ask, Store, Throw, Thrown
    <3>2. batch' = [batch EXCEPT ![r] = batch[r]]
      BY <2>1, <1>3 DEF Claim, Ask, Store, Throw, Thrown
    <3> QED
      BY <1>1, <1>2, <3>1, <3>2, TickType
  <2>2. CASE Unlock(r)
    <3>1. /\ pc' = [pc EXCEPT ![r] = "next"]
          /\ batch' = [batch EXCEPT ![r] = Tail(batch[r])]
      BY <2>2 DEF Unlock
    <3> QED
      BY <1>0, <1>2, <3>1, TailType, TickType
  <2> QED
    BY <2>1, <2>2
<1>6. /\ status' \in [Items -> Outcomes \cup {"DELETED"}]
      /\ waiting' \in [Kinds -> Seq(Items)]
  <2>1. CASE Store(r)
    <3>1. answer[r] \in Outcomes \cup {"DELETED"}
      BY <1>0 DEF TypeOK
    <3>2. Write(Current(r), answer[r])
      BY <2>1 DEF Store
    <3> QED
      BY <1>0, <1>4, <3>1, <3>2, WriteType
  <2>2. CASE ~Store(r)
    BY <1>0, <2>2 DEF TypeOK, rows, Claim, Ask, Throw, Unlock
  <2> QED
    BY <2>1, <2>2
<1>7. /\ lock' \in [Items -> Replicas \cup {NoReplica}]
      /\ dead' \subseteq Replicas
      /\ answer' \in [Replicas -> Outcomes]
  BY <1>0, <1>4 DEF TypeOK, Outcomes, Claim, Ask, Store, Throw, Unlock
<1>8. UNCHANGED <<healthy, running, kind>>
  BY DEF Claim, Ask, Store, Throw, Unlock
<1>9. UNCHANGED faults \/ Fault
  BY DEF Claim, Ask, Store, Throw, Unlock
<1>10. faults' \in 0..MaxFaults
  BY <1>0, <1>9, FaultType DEF TypeOK
<1> QED
  BY <1>0, <1>5, <1>6, <1>7, <1>8, <1>10 DEF JobTypes, TypeOK

\* A process or a connection dies.
LEMMA DeathsType ==
  ASSUME JobTypes, NEW r \in Replicas, Crash(r) \/ SessionDies(r)
  PROVE  JobTypes'
<1>0. TypeOK /\ WorkInHand
  BY DEF JobTypes
<1>1. faults' \in 0..MaxFaults
  BY <1>0, FaultType DEF Crash, SessionDies
<1>2. CASE Crash(r)
  <2>1. /\ pc' = [pc EXCEPT ![r] = "down"]
        /\ batch' = [batch EXCEPT ![r] = << >>]
    BY <1>2 DEF Crash, Goto
  <2>2. << >> \in Seq(Items) /\ Len(<< >>) <= BatchSize
    BY JobAssumption
  <2>3. /\ batch' \in [Replicas -> Seq(Items)]
        /\ \A s \in Replicas : Len(batch'[s]) <= BatchSize
        /\ pc' \in [Replicas ->
             {"down", "idle", "listing", "next", "locked", "asked", "unlocking"}]
        /\ WorkInHand'
    BY <2>1, <2>2, TickType
  <2>4. /\ running' \in [Replicas -> BOOLEAN]
        /\ kind' \in [Replicas -> Kinds]
        /\ answer' \in [Replicas -> Outcomes]
        /\ lock' \in [Items -> Replicas \cup {NoReplica}]
        /\ dead' \subseteq Replicas
        /\ UNCHANGED <<status, waiting, healthy>>
    BY <1>0, <1>2 DEF TypeOK, Crash, Kinds, Outcomes, rows
  <2> QED
    BY <1>0, <1>1, <2>3, <2>4 DEF JobTypes, TypeOK
<1>3. CASE SessionDies(r)
  <2>1. /\ lock' \in [Items -> Replicas \cup {NoReplica}]
        /\ dead' \subseteq Replicas
        /\ UNCHANGED <<status, waiting, healthy, running, pc, kind, batch, answer>>
    BY <1>0, <1>3 DEF TypeOK, SessionDies, rows, tick
  <2> QED
    BY <1>0, <1>1, <2>1 DEF JobTypes, TypeOK, WorkInHand, AtWork
<1> QED
  BY <1>2, <1>3

\* HTTP writes and BrasilAPI
LEMMA WorldType ==
  ASSUME JobTypes, (\E i \in Items : Put(i) \/ Delete(i)) \/ Toggle
  PROVE  JobTypes'
<1>0. TypeOK /\ WorkInHand
  BY DEF JobTypes
<1>1. ASSUME NEW i \in Items, Put(i) \/ Delete(i)
      PROVE  JobTypes'
  <2>1. PICK s \in Outcomes \cup {"DELETED"} : Write(i, s)
    BY <1>1 DEF Put, Delete
  <2>2. /\ status' \in [Items -> Outcomes \cup {"DELETED"}]
        /\ waiting' \in [Kinds -> Seq(Items)]
    BY <1>0, <2>1, WriteType
  <2>3. faults' \in 0..MaxFaults
    BY <1>0, <1>1, FaultType DEF Put, Delete
  <2>4. UNCHANGED <<healthy, running, pc, kind, batch, answer, lock, dead>>
    BY <1>1 DEF Put, Delete, tick
  <2> QED
    BY <1>0, <2>2, <2>3, <2>4 DEF JobTypes, TypeOK, WorkInHand, AtWork
<1>2. CASE Toggle
  <2>1. /\ healthy' \in BOOLEAN
        /\ UNCHANGED <<status, waiting, running, pc, kind, batch, answer, lock, dead, faults>>
    BY <1>0, <1>2 DEF Toggle, TypeOK, rows, tick
  <2> QED
    BY <1>0, <2>1 DEF JobTypes, TypeOK, WorkInHand, AtWork
<1> QED
  BY <1>1, <1>2

\* Type correctness: no replica holds more than a batch, and none works on a row
\* that it has not in its batch, however processes and connections die.
THEOREM JobTypesCorrect == Spec => []TypeOK
<1>1. Init => JobTypes
  <2> SUFFICES ASSUME Init PROVE JobTypes
    OBVIOUS
  <2>1. waiting \in [Kinds -> Seq(Items)]
    <3>1. Cardinality(Items) \in Nat
      BY JobAssumption, FS_CardinalityType
    <3>2. UNION {[1..n -> Items] : n \in 0..Cardinality(Items)} \subseteq Seq(Items)
      BY <3>1
    <3> QED
      BY <3>2 DEF Init
  <2>2. << >> \in Seq(Items) /\ Len(<< >>) <= BatchSize /\ 0 \in 0..MaxFaults
    BY JobAssumption
  <2> QED
    BY <2>1, <2>2 DEF Init, JobTypes, TypeOK, WorkInHand, AtWork, Outcomes, Kinds
<1>2. JobTypes /\ [Next]_vars => JobTypes'
  <2> SUFFICES ASSUME JobTypes, [Next]_vars PROVE JobTypes'
    OBVIOUS
  <2>1. ASSUME UNCHANGED vars
        PROVE  JobTypes'
    BY <2>1 DEF JobTypes, TypeOK, WorkInHand, AtWork, vars, rows, tick
  <2>2. ASSUME NEW r \in Replicas,
               \/ Step(r) \/ Throw(r) \/ SkipTick(r) \/ ListFails(r)
               \/ ClaimFails(r) \/ Crash(r) \/ SessionDies(r)
        PROVE  JobTypes'
    <3>1. CASE SkipTick(r)
      BY <2>1, <3>1 DEF SkipTick
    <3> QED
      BY <2>2, <3>1, BetweenRowsType, DuringRowType, DeathsType DEF Step
  <2> QED
    BY <2>1, <2>2, WorldType DEF Next
<1>3. JobTypes => TypeOK
  BY DEF JobTypes
<1> QED
  BY <1>1, <1>2, <1>3, PTL DEF Spec
=============================================================================
