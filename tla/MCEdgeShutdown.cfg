CONSTANTS
  MCResults = 3
  Result <- MCResult
  alice = alice
  w1 = w1
  s1 = s1
  s2 = s2
  NoUser = NoUser
  NoSlot = NoSlot
  User = {alice}
  Subject <- MCSubject
  Slot = {s1}
  Worker = {w1}
  WorkerOf <- MCWorkerOf
  Cooldown = 1
  ReplayTTL = 1
  CleanupInterval = 0
  Databases = {"sqlite"}
  MaxClock = 0
  MaxManual = 0
  QueueMax = 2
  BatchSize = 1
  MqttInUse = FALSE
  DiskMayFail = FALSE
SPECIFICATION EdgeSpec
PROPERTIES ShutdownKeepsStore
