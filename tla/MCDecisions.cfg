CONSTANTS
  Sid = {1}
  h1 = h1
  h2 = h2
  Editor = {h1, h2}
  Body <- MCBody
  Moment = {0, 5, 585, 586, 1065, 1066, 1430, 1435, 1439, 1445, 2025, 3000}
  Bad = Bad
  NoRow = NoRow
  Face <- MCFace
  Requested <- MCRequested
  Failures <- MCFailures
  ModelPath = TRUE
  Threshold = {50, 65}
  ModelType = "auto"
  Accelerated = FALSE
  NoFace = NoFace
  Key = {"camera_fps", "liveness_threshold"}
  Captured = {"camera_fps"}
  Foreign = {"dedup_cooldown"}
  Served = {"liveness_threshold", "dedup_cooldown"}
  Value = {1, 2}
  Default = 0
  NoFile = NoFile
  Torn = Torn
  Machine <- MCMachine
  NoProfile = NoProfile
SPECIFICATION MCSpec
INVARIANTS ScheduleSound VerdictsSound ProfileSound
PROPERTIES OnlyAsked OneStartBehind
CHECK_DEADLOCK FALSE
