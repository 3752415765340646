CONSTANTS
  r1 = r1
  r2 = r2
  alice = alice
  w1 = w1
  w2 = w2
  s1 = s1
  s2 = s2
  NoUser = NoUser
  Result = {r1, r2}
  User = {alice}
  Subject <- MCSubject
  Slot = {s1}
  Worker = {w1}
  WorkerOf <- MCWorkerOf
  Cooldown = 1
  ReplayTTL = 0
  CleanupInterval = 1
  Databases = {"postgresql"}
  MaxClock = 1
  MaxManual = 0
SPECIFICATION Spec
PROPERTY MatchingAnswers
