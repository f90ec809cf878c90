SPECIFICATION SSpec
CONSTANTS
  b1 = b1  b2 = b2  b3 = b3  s1 = s1  s2 = s2
  alice = alice  root = root  walkin1 = walkin1  r1 = r1
  NoUser = NoUser  NoRoom = NoRoom  NoSeries = NoSeries
  BookingIds = {b1, b2, b3}
  Users = {alice, root}
  Rooms = {r1}
  Role <- MCRole
  AllowedRoles <- MCAllowedRoles
  AutoApprove <- MCAutoApprove
  UserLimit = 1  TeacherLimit = 1  ProLimit = 2
  FreeAdvance = 0  ProAdvance = 9
  Early = 1  Late = 1  QrTtl = 1
  Slots <- PlainSlot
  Occurrences = {}
  Devices = {}
  Principal <- NoPrincipal
  WalkInDelay = 1  WalkInDurations = {1}
  QrCalls = {}  Kiosks = {}
  ExpireRuns = {}  CompleteRuns = {}
  BatchSize = 1
  ProAtStart = {root}
  ChangingUsers = {}  ChangingRooms = {}  ChangingDevices = {}
  MaxTime = 1  MaxTokens = 0  MaxVersion = 1  MaxFaults = 0
  SeriesIds = {s1, s2}
  DayLength = 1  WeekLength = 2
  MaxOccurrences = 2  MaxSpanDays = 3
  Templates <- MCTemplates
  StripeEvents = {1, 2}  StripeEvent <- MCStripeEvent
  Deliveries = {x1}
SYMMETRY Symmetry
INVARIANTS NoDoubleBooking LiveEventChain
PROPERTIES  SeriesLimitRespected SeriesWrittenWhole
CHECK_DEADLOCK FALSE
