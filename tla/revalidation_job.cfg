SPECIFICATION FairSpec
CONSTANTS
  Replicas = {r1, r2}
  Producers = {a, b, c}
  Farms = {f}
  BatchSize = 2
  Poisoned = {a}
  MaxFaults = 1
  NoReplica = NoReplica
INVARIANTS OneReplicaPerItem LocksAreReleased
PROPERTIES EveryPendingIsTried AllSettle
