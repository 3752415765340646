CONSTANTS
  MCResults = 4
  Result <- MCResult
  alice = alice
  w1 = w1
  s1 = s1
  s2 = s2
  NoUser = NoUser
  NoSlot = NoSlot
  User = {alice}
  Subject <- MCSubject
  Slot = {s1}
  Worker = {w1}
  WorkerOf <- MCWorkerOf
  Cooldown = 1
  ReplayTTL = 1
  CleanupInterval = 0
  Databases = {"sqlite", "postgresql"}
  MaxClock = 0
  MaxManual = 0
  QueueMax = 3
  BatchSize = 2
  MqttInUse = FALSE
  DiskMayFail = TRUE
SPECIFICATION RecoverySpec
PROPERTIES  FlushEnds
INVARIANTS StoreInOrder DiskCoversStore
