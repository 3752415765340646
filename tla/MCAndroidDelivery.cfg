CONSTANTS
  Sighting = {1, 2}
  Flush = {"f1", "f2"}
  Result <- MCResult
  alice = alice
  w1 = w1
  s1 = s1
  s2 = s2
  NoUser = NoUser
  NoSlot = NoSlot
  User = {alice}
  Subject <- MCSubject
  Slot = {s1}
  Worker = {w1}
  WorkerOf <- MCWorkerOf
  Cooldown = 0
  ReplayTTL = 1
  CleanupInterval = 0
  Databases = {"sqlite"}
  MaxClock = 0
  MaxManual = 0
SPECIFICATION PhoneSpec
INVARIANTS PhoneInv
PROPERTIES PhoneCustody RowsAreSynced
