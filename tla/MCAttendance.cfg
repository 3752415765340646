CONSTANTS
  ann = ann
  bob = bob
  tim = tim
  una = una
  h1 = h1
  h2 = h2
  None = None
  Student = {ann, bob}
  Teacher = {tim, una}
  Handler = {h1, h2}
  Frame <- MCFrame
  MaxSessions = 2
  Leaver = {bob}
SPECIFICATION Spec
INVARIANTS TypeOK MarksInOrder OneActivePerTeacher
PROPERTIES EndedForGood ManualOncePerDay
SYMMETRY MCSymmetry
