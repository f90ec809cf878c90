SPECIFICATION Spec
CONSTANTS
  b1 = b1  b2 = b2
  alice = alice  root = root  walkin1 = walkin1
  r1 = r1  r2 = r2  d1 = d1
  NoUser = NoUser  NoRoom = NoRoom
  BookingIds = {b1, b2}
  Users = {alice, root, walkin1}
  Rooms = {r1}
  Role <- MCRole
  AllowedRoles <- MCAllowedRoles
  AutoApprove <- MCAutoApprove
  UserLimit = 2  TeacherLimit = 1  ProLimit = 2
  FreeAdvance = 9  ProAdvance = 9
  Early = 1  Late = 0  QrTtl = 1
  Slots <- LateSlots
  Occurrences = {b1, b2}
  Devices = {d1}
  Principal <- NoPrincipal
  WalkInDelay = 1  WalkInDurations = {1}
  QrCalls = {q1}  Kiosks = {k1}
  ExpireRuns = {}  CompleteRuns = {}
  BatchSize = 1
  ProAtStart = {alice}
  ChangingUsers = {}  ChangingRooms = {r1}  ChangingDevices = {d1}
  MaxTime = 2  MaxTokens = 2  MaxVersion = 2  MaxFaults = 0
INVARIANTS TypeOK CheckInWithinWindow NoQrAfterCheckIn EventChain
PROPERTIES StaleKioskWritesNothing
SYMMETRY Symmetry
