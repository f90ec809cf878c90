SPECIFICATION FairWSpec
CONSTANTS
  b1 = b1  b2 = b2  b3 = b3
  alice = alice  bob = bob  root = root  r1 = r1
  NoUser = NoUser  NoRoom = NoRoom
  BookingIds = {b1, b2}
  Users = {alice, bob, root}
  Rooms = {r1}
  Role <- MCRole
  AllowedRoles <- MCAllowedRoles
  AutoApprove <- MCAutoApprove
  UserLimit = 1  TeacherLimit = 1  ProLimit = 1
  FreeAdvance = 0  ProAdvance = 9
  Early = 1  Late = 1  QrTtl = 1
  Slots <- OneSlot
  Occurrences = {}
  Devices = {}
  Principal <- NoPrincipal
  WalkInDelay = 1  WalkInDurations = {1}
  QrCalls = {}  Kiosks = {}
  ExpireRuns = {}  CompleteRuns = {}
  BatchSize = 1
  ProAtStart = {alice, bob}
  ChangingUsers = {bob}  ChangingRooms = {}  ChangingDevices = {}
  MaxTime = 1  MaxTokens = 0  MaxVersion = 1  MaxFaults = 1
  MaxEntries = 2  Releases = {p1}  Sweeps = {s1}
  SweepTake = 2  PromoteTake = 2
PROPERTIES FreeSlotOffered LifecycleSpecW
CHECK_DEADLOCK FALSE
