SPECIFICATION FairSpec
CONSTANTS
  alice = alice  bob = bob  r1 = r1  c1 = c1  c2 = c2
  NoUser = NoUser  NoRoom = NoRoom
  BookingIds = {b1, b2}
  Users = {alice, bob}
  Rooms = {r1}
  Role <- MCRole
  AllowedRoles <- MCAllowedRoles
  UserLimit = 1  TeacherLimit = 1  ProLimit = 2
  FreeAdvance = 9  ProAdvance = 9
  Creators = {c1, c2}
  Wishes <- MCWishes
  Movers = {m1, m2}  ProUsers = {bob}
  MaxAttempts = 2  MaxFaults = 1
INVARIANTS TypeOK AnswerIsTrue
PROPERTIES AsIfAlone LifecycleSpec EveryRequestAnswered
CHECK_DEADLOCK FALSE
