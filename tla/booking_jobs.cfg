SPECIFICATION FairSpec
CONSTANTS
  b1 = b1  b2 = b2
  alice = alice  root = root  walkin1 = walkin1
  r1 = r1  r2 = r2  d1 = d1
  NoUser = NoUser  NoRoom = NoRoom
  BookingIds = {b1, b2}
  Users = {root, walkin1}
  Rooms = {r2}
  Role <- MCRole
  AllowedRoles <- MCAllowedRoles
  AutoApprove <- MCAutoApprove
  UserLimit = 2  TeacherLimit = 1  ProLimit = 2
  FreeAdvance = 9  ProAdvance = 9
  Early = 1  Late = 1  QrTtl = 1
  Slots <- LivenessSlots
  Occurrences = {}
  Devices = {d1}
  Principal <- NoPrincipal
  WalkInDelay = 1  WalkInDurations = {1}
  QrCalls = {q1}  Kiosks = {k1}
  ExpireRuns = {e1}  CompleteRuns = {c1}
  BatchSize = 1
  ProAtStart = {}
  ChangingUsers = {}  ChangingRooms = {}  ChangingDevices = {}
  MaxTime = 4  MaxTokens = 1  MaxVersion = 2  MaxFaults = 1
PROPERTIES LifecycleSpec ExpiredOnlyAfterGrace NoShowReleased GuestCheckedOut
CHECK_DEADLOCK FALSE
