CONSTANTS
  ann1 = ann1
  bob1 = bob1
  ann = ann
  bob = bob
  s1 = s1
  s2 = s2
  s3 = s3
  w1 = w1
  w2 = w2
  None = None
  Enrol = {ann1, bob1}
  Person = {ann, bob}
  Of <- MCOf
  Slot = {s1, s2, s3}
  Worker = {w1, w2}
  WorkerOf <- MCWorkerOf
SPECIFICATION Spec
INVARIANTS EnrolmentInv
PROPERTY EnrolledIsKnown
